---- MODULE Spec2Model ----
(***************************************************************************)
(* Smart Travel Expense Splitter: balance calculation (splitter.py),       *)
(* settlement optimisation (settlement.py) and the eligibility predicate   *)
(* that splitter.py, utils.py, app.py and participants.py each implement.  *)
(*                                                                         *)
(* Money.  An expense amount is a float holding a whole number of cents;   *)
(* Decimal(str(amount)) is then that number of cents exactly.  The code    *)
(* accumulates in decimal.Decimal under the default context: 28            *)
(* significant digits, ROUND_HALF_EVEN.  A Decimal magnitude is modelled   *)
(* as the integer number of units of 10^-30 it holds, written as           *)
(* NumLimbs limbs of LimbDigits decimal digits, least significant first,   *)
(* because the model checker's integers are 32 bits wide.  Every quotient  *)
(* amount / n with amount >= 0.01 and n <= 10 has its 28th significant     *)
(* digit at 10^-30 or above, so the unit loses nothing.                    *)
(*                                                                         *)
(* Dates.  The code compares YYYY-MM-DD strings with < and >; a date is    *)
(* modelled as its rank in that order.  end_date None is <<>>, a present   *)
(* end date d is <<d>>.                                                    *)
(***************************************************************************)
EXTENDS Integers, Sequences, FiniteSets, TLC

\* ---------------------------------------------------------------------
\* decimal.Decimal, default context
\* ---------------------------------------------------------------------

Prec == 28

LimbDigits == 6

NumLimbs == 6

Base == 10 ^ LimbDigits

\* digit position (counted in units of 10^-30) of one cent: 10^-2 = 10^28 units
CentPos == 28

DecZero == [i \in 1..NumLimbs |-> 0]

\* Decimal(str(amount)) for an amount of c whole cents
DecFromCents(c) ==
    LET k == CentPos \div LimbDigits + 1
        v == c * 10 ^ (CentPos % LimbDigits)
    IN  [i \in 1..NumLimbs |->
            IF i = k THEN v % Base
            ELSE IF i = k + 1 THEN v \div Base
            ELSE 0]

\* digit position of a tenth of a cent: 10^-3 = 10^27 units
MillPos == 27

\* Decimal(str(amount)) for an amount of m tenths of a cent
DecFromMills(m) ==
    LET k == MillPos \div LimbDigits + 1
        v == m * 10 ^ (MillPos % LimbDigits)
    IN  [i \in 1..NumLimbs |->
            IF i = k THEN v % Base
            ELSE IF i = k + 1 THEN v \div Base
            ELSE 0]

RECURSIVE AddLimbs(_, _, _, _)
AddLimbs(x, y, i, carry) ==
    IF i > NumLimbs THEN <<>>
    ELSE LET s == x[i] + y[i] + carry
         IN  <<s % Base>> \o AddLimbs(x, y, i + 1, s \div Base)

\* exact x + y of two magnitudes
DecAddExact(x, y) == AddLimbs(x, y, 1, 0)

RECURSIVE SubLimbs(_, _, _, _)
SubLimbs(x, y, i, borrow) ==
    IF i > NumLimbs THEN <<>>
    ELSE LET d == x[i] - y[i] - borrow
         IN  IF d < 0 THEN <<d + Base>> \o SubLimbs(x, y, i + 1, 1)
             ELSE <<d>> \o SubLimbs(x, y, i + 1, 0)

\* exact x - y of two magnitudes, x >= y
DecSubExact(x, y) == SubLimbs(x, y, 1, 0)

RECURSIVE LessFrom(_, _, _)
LessFrom(x, y, i) ==
    IF i = 0 THEN FALSE
    ELSE IF x[i] # y[i] THEN x[i] < y[i]
    ELSE LessFrom(x, y, i - 1)

\* x < y on magnitudes
DecLess(x, y) == LessFrom(x, y, NumLimbs)

\* number of decimal digits of a limb value
LimbLen(v) ==
    IF v = 0 THEN 0
    ELSE IF v < 10 THEN 1
    ELSE IF v < 100 THEN 2
    ELSE IF v < 1000 THEN 3
    ELSE IF v < 10000 THEN 4
    ELSE IF v < 100000 THEN 5
    ELSE 6

RECURSIVE DigitsFrom(_, _)
DigitsFrom(x, i) ==
    IF i = 0 THEN 0
    ELSE IF x[i] # 0 THEN (i - 1) * LimbDigits + LimbLen(x[i])
    ELSE DigitsFrom(x, i - 1)

\* number of significant digits of the magnitude x, as an integer of units
NumDigits(x) == DigitsFrom(x, NumLimbs)

\* Context rounding to Prec significant digits, ROUND_HALF_EVEN.  x is the
\* magnitude truncated to the unit; tail tells what was cut off below the
\* unit: 0 nothing, 1 less than half a unit, 2 exactly half, 3 more than
\* half.  At most LimbDigits digits are dropped, all of them in limb 1.
DecRound(x, tail) ==
    LET nd == NumDigits(x)
        d  == IF nd > Prec THEN nd - Prec ELSE 0
        p  == 10 ^ d
        r  == x[1] % p
        kept == [x EXCEPT ![1] = x[1] - r]
        \* the digit that stays last: odd or even
        lastOdd == IF d < LimbDigits THEN ((x[1] \div p) % 2) = 1
                   ELSE (x[2] % 2) = 1
        \* twice the dropped part against one unit of the kept digit
        up == IF d = 0
              THEN tail = 3 \/ (tail = 2 /\ lastOdd)
              ELSE \/ 2 * r > p
                   \/ 2 * r = p /\ tail # 0
                   \/ 2 * r = p /\ tail = 0 /\ lastOdd
        bump == [i \in 1..NumLimbs |-> IF i = 1 THEN p ELSE 0]
    IN  IF d = 0 /\ tail = 0 THEN x
        ELSE IF up THEN AddLimbs(kept, bump, 1, 0)
        ELSE kept

\* Decimal.__add__ of two non-negative Decimals
DecAdd(x, y) == DecRound(DecAddExact(x, y), 0)

RECURSIVE DivLimbs(_, _, _, _)
DivLimbs(x, n, i, rem) ==
    IF i = 0 THEN [q |-> <<>>, r |-> rem]
    ELSE LET cur  == rem * Base + x[i]
             rest == DivLimbs(x, n, i - 1, cur % n)
         IN  [q |-> rest.q \o <<cur \div n>>, r |-> rest.r]

\* Decimal.__truediv__ of a non-negative Decimal by Decimal(n), n >= 1
DecDiv(x, n) ==
    LET qr   == DivLimbs(x, n, NumLimbs, 0)
        tail == IF qr.r = 0 THEN 0
                ELSE IF 2 * qr.r < n THEN 1
                ELSE IF 2 * qr.r = n THEN 2
                ELSE 3
    IN  DecRound(qr.q, tail)

\* A signed Decimal: [neg |-> BOOLEAN, mag |-> magnitude]
\* Decimal.__sub__ of two non-negative Decimals
DecSub(x, y) ==
    IF DecLess(x, y)
    THEN [neg |-> TRUE,  mag |-> DecRound(DecSubExact(y, x), 0)]
    ELSE [neg |-> FALSE, mag |-> DecRound(DecSubExact(x, y), 0)]

\* _round_decimal: quantize(Decimal("0.01"), ROUND_HALF_UP) then float(),
\* as a signed whole number of cents
RoundMagToCents(x) ==
    LET k    == CentPos \div LimbDigits + 1
        p    == 10 ^ (CentPos % LimbDigits)
        low  == x[k] % p
        base == x[k + 1] * (Base \div p) + x[k] \div p
    IN  IF 2 * low >= p THEN base + 1 ELSE base

_round_decimal(value) ==
    IF value.neg THEN 0 - RoundMagToCents(value.mag)
    ELSE RoundMagToCents(value.mag)

\* a non-negative Decimal as a signed one
Pos(x) == [neg |-> FALSE, mag |-> x]

\* ---------------------------------------------------------------------
\* Python float (IEEE 754 binary64): a magnitude counts units of
\* 2^-FloatUnitBits in the limbs used above; every float met here is a whole
\* number of units with at most MantissaBits significant bits
\* ---------------------------------------------------------------------

FloatUnitBits == 72

MantissaBits == 53

RECURSIVE MulLimbs(_, _, _, _)
MulLimbs(x, m, i, carry) ==
    IF i > NumLimbs THEN <<>>
    ELSE LET s == x[i] * m + carry
         IN  <<s % Base>> \o MulLimbs(x, m, i + 1, s \div Base)

\* exact x * m for a small whole number m
MulSmall(x, m) == MulLimbs(x, m, 1, 0)

\* 1024^k
RECURSIVE Pow1024(_)
Pow1024(k) ==
    IF k = 0 THEN [i \in 1..NumLimbs |-> IF i = 1 THEN 1 ELSE 0]
    ELSE MulSmall(Pow1024(k - 1), 1024)

\* 2^k
Pow2(k) == MulSmall(Pow1024(k \div 10), 2 ^ (k % 10))

\* 1.0 in units
FloatOne == Pow2(FloatUnitBits)

\* the first whole number that needs more than MantissaBits bits
MantissaEnd == Pow2(MantissaBits)

\* the first whole number that needs more than MantissaBits + 10 bits
MantissaFar == Pow2(MantissaBits + 10)

\* x * 2^k
RECURSIVE Doubled(_, _)
Doubled(x, k) ==
    IF k > 10 THEN Doubled(MulSmall(x, 1024), k - 10)
    ELSE MulSmall(x, 2 ^ k)

\* round to nearest, ties to even, on the last kept bit: guard is the bit
\* just dropped, sticky says whether anything below it was set
RoundedUp(n, guard, sticky) ==
    IF guard /\ (sticky \/ n[1] % 2 = 1)
    THEN DecAddExact(n, [i \in 1..NumLimbs |-> IF i = 1 THEN 1 ELSE 0])
    ELSE n

\* the nearest float to n units (plus a remainder below the unit when
\* sticky): bits are dropped, ten at a time while more than ten are to go,
\* until MantissaBits are left
RECURSIVE RoundBits(_, _, _, _)
RoundBits(n, shift, guard, sticky) ==
    IF DecLess(n, MantissaEnd)
    THEN Doubled(RoundedUp(n, guard, sticky), shift)
    ELSE IF DecLess(n, MantissaFar)
    THEN LET qr == DivLimbs(n, 2, NumLimbs, 0)
         IN  RoundBits(qr.q, shift + 1, qr.r = 1, sticky \/ guard)
    ELSE LET qr == DivLimbs(n, 1024, NumLimbs, 0)
         IN  RoundBits(qr.q, shift + 10, FALSE, sticky \/ guard \/ qr.r # 0)

\* n / 2^k cut to a whole number; sticky says whether anything was cut off
RECURSIVE ShiftDown(_, _, _)
ShiftDown(n, k, sticky) ==
    IF n = DecZero THEN [q |-> n, sticky |-> sticky]
    ELSE IF k > 10
    THEN ShiftDown(DivLimbs(n, 1024, NumLimbs, 0).q, k - 10,
                   sticky \/ DivLimbs(n, 1024, NumLimbs, 0).r # 0)
    ELSE [q      |-> DivLimbs(n, 2 ^ k, NumLimbs, 0).q,
          sticky |-> sticky \/ DivLimbs(n, 2 ^ k, NumLimbs, 0).r # 0]

\* n / 2^k rounded to a whole number, ties to even, k >= 1
ShiftRound(n, k) ==
    LET cut  == ShiftDown(n, k - 1, FALSE)
        half == DivLimbs(cut.q, 2, NumLimbs, 0)
    IN  RoundedUp(half.q, half.r = 1, cut.sticky)

\* a limb value that fits a machine integer
IntOf(v) == v[1] + v[2] * Base

\* float("d.dd"): the float nearest to c / 100, c >= 0 whole cents
FloatFromCents(c) ==
    LET whole == MulSmall(MulSmall(FloatOne, 100), c \div 100)
        part  == MulSmall(FloatOne, c % 100)
        qr    == DivLimbs(DecAddExact(whole, part), 100, NumLimbs, 0)
    IN  [neg |-> FALSE, mag |-> RoundBits(qr.q, 0, FALSE, qr.r # 0)]

\* the float of a signed whole number of cents
FloatFromSignedCents(c) ==
    IF c < 0 THEN [neg |-> TRUE, mag |-> FloatFromCents(0 - c).mag]
    ELSE FloatFromCents(c)

FloatZero == [neg |-> FALSE, mag |-> DecZero]

\* x / n for a float x >= 0 and an int n >= 1
FloatDivInt(x, n) ==
    LET qr == DivLimbs(x.mag, n, NumLimbs, 0)
    IN  [neg |-> x.neg, mag |-> RoundBits(qr.q, 0, FALSE, qr.r # 0)]

\* x + y
FloatAdd(x, y) ==
    IF x.neg = y.neg
    THEN [neg |-> x.neg, mag |-> RoundBits(DecAddExact(x.mag, y.mag), 0, FALSE, FALSE)]
    ELSE IF DecLess(x.mag, y.mag)
    THEN [neg |-> y.neg, mag |-> RoundBits(DecSubExact(y.mag, x.mag), 0, FALSE, FALSE)]
    ELSE [neg |-> x.neg, mag |-> RoundBits(DecSubExact(x.mag, y.mag), 0, FALSE, FALSE)]

\* x - y
FloatSub(x, y) == FloatAdd(x, [neg |-> ~y.neg, mag |-> y.mag])

\* round(x, 2): the nearest 2-decimal value of the float's exact value,
\* ties to even, as a signed whole number of cents
PyRound2(x) ==
    LET cents == IntOf(ShiftRound(MulSmall(x.mag, 100), FloatUnitBits))
    IN  IF x.neg THEN 0 - cents ELSE cents

\* ---------------------------------------------------------------------
\* Bounds and input domains
\* ---------------------------------------------------------------------

\* participants of a trip: ids 1..n stand for P001, P002, ...
MaxParticipants == 4

\* expenses handed to one calculate_balances call
MaxExpenses == 2

\* dates 1..MaxDate
MaxDate == 2

\* expenses of one call in the specification of long lists
MaxDriftExpenses == 4

\* net balances of -MaxNet..MaxNet cents
MaxNet == 4

\* dates 1..MaxWindowDate in the specification of the eligibility predicate
MaxWindowDate == 4

\* an id that names no participant of the trip
UnknownId == 0

Dates == 1..MaxDate

\* amounts in whole cents: 0.02 and 90.00
Amounts == {2, 9000}

\* the windows of a participant: there from the first day on, joining on
\* the last day, leaving after the first day
Windows ==
    {[start_date |-> 1,       end_date |-> <<>>],
     [start_date |-> MaxDate, end_date |-> <<>>],
     [start_date |-> 1,       end_date |-> <<1>>]}

\* the participants lists of n participants, ids 1..n in order
Rosters(n) ==
    {r \in [1..n -> [participant_id : 1..n, start_date : Dates,
                     end_date : {<<>>} \cup {<<d>> : d \in Dates}]] :
        \A i \in 1..n :
            /\ r[i].participant_id = i
            /\ [start_date |-> r[i].start_date, end_date |-> r[i].end_date] \in Windows}

\* beneficiary lists: the first k participants; participant 1 listed twice;
\* an unknown id in the list
BenLists(n) ==
    {[i \in 1..k |-> i] : k \in 1..n}
    \cup {<<1, n, 1>>, <<1, UnknownId>>}

\* the expenses of a trip of n participants
Expenses(n) ==
    [payer_id : {1, UnknownId}, amount : Amounts,
     beneficiaries : BenLists(n), date : Dates]

\* ---------------------------------------------------------------------
\* State
\* ---------------------------------------------------------------------

VARIABLES
    participants,   \* calculate_balances: the participants argument
    balances,       \* calculate_balances: the Decimal accumulators
    expenses,       \* calculate_balances: the part of the expenses argument
                    \* the loop has gone through
    result,         \* the returned dict, <<>> until the function returns
    pc,             \* position in the function being run
    net_balances,   \* optimize_settlements: net_balance of the balances
                    \* argument in dict order, whole cents
    debtors,        \* optimize_settlements: [participant_id, amount] pairs
    creditors,      \* optimize_settlements: [participant_id, amount] pairs
    debtor_idx,     \* index into debtors, 1-based (0-based in the code)
    creditor_idx,   \* index into creditors, 1-based (0-based in the code)
    settlements,    \* optimize_settlements: the list being returned
    window,         \* eligibility: the participant asked about
    on_date,        \* eligibility: the date asked about
    answers,        \* eligibility: what each implementation returned
    explain_id,       \* explain_participant_share: the participant_id argument
    explain_balances, \* explain_participant_share: the balances argument
    explanation,      \* explain_participant_share: the returned dict
    summary,          \* app.index: the Settlement Summary rows, by participant id
    explanations,     \* app.index: the transparency dicts, by participant id
    category_totals,  \* generate_analytics: category -> Decimal, in dict order
    daily_totals,     \* generate_analytics: date -> Decimal, in dict order
    payer_totals,     \* generate_analytics: payer_id -> Decimal, in dict order
    total_spent,      \* generate_analytics: Decimal
    analytics,        \* generate_analytics: the "analytics" dict returned
    warnings,         \* generate_analytics: the "warnings" list returned
    outcome,          \* the store: the last call, its arguments, raised or not
    calls,            \* add_participant calls in progress, by caller
    settlement_docs,  \* trips/{trip_id}/results/settlements, by document id
    calculated,       \* what the last calculate_trip_results returned
    fetched           \* what the last get_trip_summary returned

calc_vars == <<participants, balances, expenses, result>>

settle_vars == <<net_balances, debtors, creditors, debtor_idx, creditor_idx,
                 settlements>>

elig_vars == <<window, on_date, answers>>

explain_vars == <<explain_id, explain_balances, explanation>>

app_vars == <<summary, explanations>>

analytics_vars == <<category_totals, daily_totals, payer_totals, total_spent,
                    analytics, warnings>>

view_vars == <<explain_vars, app_vars, analytics_vars>>

store_vars == <<outcome, calls, settlement_docs, calculated, fetched>>

vars == <<calc_vars, settle_vars, elig_vars, view_vars, store_vars, pc>>

\* ---------------------------------------------------------------------
\* splitter.py
\* ---------------------------------------------------------------------

\* the predicate with the last day of the window left out
splitter_active_end_excluded(participant, date) ==
    IF date < participant.start_date THEN FALSE
    ELSE IF participant.end_date # <<>> /\ date >= participant.end_date[1] THEN FALSE
    ELSE TRUE

\* splitter._is_participant_active_on_date
splitter_is_participant_active_on_date(participant, date) ==
    IF date < participant.start_date THEN FALSE
    ELSE IF participant.end_date # <<>> /\ date > participant.end_date[1] THEN FALSE
    ELSE TRUE

\* participant_map = {p["participant_id"]: p for p in participants}: a later
\* entry with the same id replaces an earlier one
participant_map(ps) ==
    [id \in {ps[i].participant_id : i \in DOMAIN ps} |->
        ps[CHOOSE i \in DOMAIN ps :
              /\ ps[i].participant_id = id
              /\ \A j \in DOMAIN ps : ps[j].participant_id = id => j <= i]]

\* line 133: amount = Decimal(str(expense["amount"])); an expense record
\* gives the amount in whole cents, plus tenths of a cent in "mills" when it
\* has that field
AmountOf(e) ==
    IF "mills" \in DOMAIN e
    THEN AddLimbs(DecFromCents(e.amount), DecFromMills(e.mills), 1, 0)
    ELSE DecFromCents(e.amount)

\* the accumulators before the loop
InitialBalances(ps) ==
    [id \in {ps[i].participant_id : i \in DOMAIN ps} |->
        [total_paid |-> DecZero, total_share |-> DecZero]]

\* the list with every id kept at its first place only
RECURSIVE WithoutRepeats(_)
WithoutRepeats(list) ==
    IF list = <<>> THEN <<>>
    ELSE LET front == WithoutRepeats(SubSeq(list, 1, Len(list) - 1))
             x     == list[Len(list)]
         IN  IF \E j \in DOMAIN front : front[j] = x THEN front
             ELSE Append(front, x)

\* the eligible list with a repeated id taken once
eligible_beneficiaries_once(ps, e) ==
    LET pm == participant_map(ps)
        Eligible(b) ==
            /\ b \in DOMAIN pm
            /\ splitter_is_participant_active_on_date(pm[b], e.date)
    IN  WithoutRepeats(SelectSeq(e.beneficiaries, Eligible))

\* the eligible list without the check of the expense date
eligible_beneficiaries_any_date(ps, e) ==
    SelectSeq(e.beneficiaries, LAMBDA b : b \in DOMAIN participant_map(ps))

\* lines 142-151: the listed beneficiaries that are known and active, in list
\* order, repeats kept
eligible_beneficiaries(ps, e) ==
    LET pm == participant_map(ps)
        Eligible(b) ==
            /\ b \in DOMAIN pm
            /\ splitter_is_participant_active_on_date(pm[b], e.date)
    IN  SelectSeq(e.beneficiaries, Eligible)

\* lines 161-162: add share_per_person once per entry of the eligible list
RECURSIVE AddShares(_, _, _, _)
AddShares(bal, elig, i, share_per_person) ==
    IF i > Len(elig) THEN bal
    ELSE AddShares(
            [bal EXCEPT ![elig[i]].total_share = DecAdd(@, share_per_person)],
            elig, i + 1, share_per_person)

\* the loop body dividing by the number of listed beneficiaries
ProcessedBalancesAllListed(ps, bal, e) ==
    LET amount == AmountOf(e)
        paid   == IF e.payer_id \in DOMAIN bal
                  THEN [bal EXCEPT ![e.payer_id].total_paid = DecAdd(@, amount)]
                  ELSE bal
        elig   == eligible_beneficiaries(ps, e)
    IN  IF Len(elig) = 0 THEN paid
        ELSE AddShares(paid, elig, 1, DecDiv(amount, Len(e.beneficiaries)))

\* the loop body leaving out the whole expense of an unknown payer
ProcessedBalancesKnownPayer(ps, bal, e) ==
    LET amount == AmountOf(e)
        elig   == eligible_beneficiaries(ps, e)
    IN  IF e.payer_id \notin DOMAIN bal \/ Len(elig) = 0
        THEN IF e.payer_id \in DOMAIN bal
             THEN [bal EXCEPT ![e.payer_id].total_paid = DecAdd(@, amount)]
             ELSE bal
        ELSE AddShares([bal EXCEPT ![e.payer_id].total_paid = DecAdd(@, amount)],
                       elig, 1, DecDiv(amount, Len(elig)))

\* lines 131-162: the loop body for one expense
ProcessedBalances(ps, bal, e) ==
    LET amount == AmountOf(e)
        paid   == IF e.payer_id \in DOMAIN bal
                  THEN [bal EXCEPT ![e.payer_id].total_paid = DecAdd(@, amount)]
                  ELSE bal
        elig   == eligible_beneficiaries(ps, e)
    IN  IF Len(elig) = 0 THEN paid
        ELSE AddShares(paid, elig, 1, DecDiv(amount, Len(elig)))

\* lines 164-177: round the three figures of every participant
RoundedResult(bal) ==
    [id \in DOMAIN bal |->
        [total_paid   |-> _round_decimal(Pos(bal[id].total_paid)),
         total_share  |-> _round_decimal(Pos(bal[id].total_share)),
         net_balance  |-> _round_decimal(DecSub(bal[id].total_paid,
                                                bal[id].total_share))]]

\* lines 131-162 for the whole list
RECURSIVE LoopBalances(_, _, _, _)
LoopBalances(ps, bal, exps, i) ==
    IF i > Len(exps) THEN bal
    ELSE LoopBalances(ps, ProcessedBalances(ps, bal, exps[i]), exps, i + 1)

\* calculate_balances(participants, expenses)
calculate_balances(ps, exps) ==
    RoundedResult(LoopBalances(ps, InitialBalances(ps), exps, 1))

\* ---------------------------------------------------------------------
\* calculate_balances as a state machine
\* ---------------------------------------------------------------------

CalcInit ==
    /\ \E n \in 1..MaxParticipants : participants \in Rosters(n)
    /\ balances = InitialBalances(participants)
    /\ expenses = <<>>
    /\ result = <<>>
    /\ pc = "loop"

\* one iteration of `for expense in expenses`
Process(e) ==
    /\ pc = "loop"
    /\ expenses' = Append(expenses, e)
    /\ balances' = ProcessedBalances(participants, balances, e)
    /\ UNCHANGED <<participants, result, pc>>

ProcessExpense ==
    /\ Len(expenses) < MaxExpenses
    /\ \E e \in Expenses(Len(participants)) : Process(e)

\* three participants there from the first day on
DriftInit ==
    /\ participants = [i \in 1..3 |->
                         [participant_id |-> i, start_date |-> 1, end_date |-> <<>>]]
    /\ balances = InitialBalances(participants)
    /\ expenses = <<>>
    /\ result = <<>>
    /\ pc = "loop"

\* participant 1 pays 0.01 or 0.05 for the first two or for all three
DriftExpenses ==
    [payer_id : {1}, amount : {1, 5},
     beneficiaries : {<<1, 2>>, <<1, 2, 3>>}, date : {1}]

ProcessDriftExpense ==
    /\ Len(expenses) < MaxDriftExpenses
    /\ \E e \in DriftExpenses : Process(e)

\* the list is exhausted: round and return
ReturnBalances ==
    /\ pc = "loop"
    /\ result' = RoundedResult(balances)
    /\ pc' = "done"
    /\ UNCHANGED <<participants, balances, expenses>>

\* ---------------------------------------------------------------------
\* settlement.py
\* ---------------------------------------------------------------------

\* EPSILON = Decimal("0.01"), in cents
EPSILON == 1

Epsilon == Pos(DecFromCents(EPSILON))

\* Decimal(str(balance["net_balance"])) of a float of whole cents
DecFromNet(net) ==
    IF net < 0 THEN [neg |-> TRUE, mag |-> DecFromCents(0 - net)]
    ELSE [neg |-> FALSE, mag |-> DecFromCents(net)]

\* a < b on signed Decimals
SignedLess(a, b) ==
    IF a.neg /\ ~b.neg THEN a.mag # DecZero \/ b.mag # DecZero
    ELSE IF ~a.neg /\ b.neg THEN FALSE
    ELSE IF a.neg THEN DecLess(b.mag, a.mag)
    ELSE DecLess(a.mag, b.mag)

\* a - b on signed Decimals
SignedSub(a, b) ==
    IF ~a.neg /\ ~b.neg THEN DecSub(a.mag, b.mag)
    ELSE IF a.neg /\ b.neg THEN DecSub(b.mag, a.mag)
    ELSE [neg |-> a.neg, mag |-> DecAdd(a.mag, b.mag)]

\* -a and abs(a)
SignedNeg(a) == [neg |-> ~a.neg, mag |-> a.mag]

SignedAbs(a) == [neg |-> FALSE, mag |-> a.mag]

\* the debtors taken as everybody with net < 0
RECURSIVE PartitionDebtorsBelowZero(_, _)
PartitionDebtorsBelowZero(nets, i) ==
    IF i > Len(nets) THEN <<>>
    ELSE LET net == DecFromNet(nets[i])
         IN  (IF SignedLess(net, Pos(DecZero))
              THEN <<[participant_id |-> i, amount |-> SignedAbs(net)]>>
              ELSE <<>>) \o PartitionDebtorsBelowZero(nets, i + 1)

\* lines 86-95: the participants with net < -EPSILON, amounts made positive
RECURSIVE PartitionDebtors(_, _)
PartitionDebtors(nets, i) ==
    IF i > Len(nets) THEN <<>>
    ELSE LET net == DecFromNet(nets[i])
         IN  (IF SignedLess(net, SignedNeg(Epsilon))
              THEN <<[participant_id |-> i, amount |-> SignedAbs(net)]>>
              ELSE <<>>) \o PartitionDebtors(nets, i + 1)

\* the creditors taken as everybody with net > 0
RECURSIVE PartitionCreditorsAboveZero(_, _)
PartitionCreditorsAboveZero(nets, i) ==
    IF i > Len(nets) THEN <<>>
    ELSE LET net == DecFromNet(nets[i])
         IN  (IF SignedLess(Pos(DecZero), net)
              THEN <<[participant_id |-> i, amount |-> net]>>
              ELSE <<>>) \o PartitionCreditorsAboveZero(nets, i + 1)

\* lines 86-95: the participants with net > EPSILON
RECURSIVE PartitionCreditors(_, _)
PartitionCreditors(nets, i) ==
    IF i > Len(nets) THEN <<>>
    ELSE LET net == DecFromNet(nets[i])
         IN  (IF ~SignedLess(net, SignedNeg(Epsilon)) /\ SignedLess(Epsilon, net)
              THEN <<[participant_id |-> i, amount |-> net]>>
              ELSE <<>>) \o PartitionCreditors(nets, i + 1)

\* the list left in the order of the balances dict
SortedAsGiven(list) == list

\* list.sort(key=lambda x: x[1], reverse=True): descending by amount, entries
\* of equal amount keep their order
RECURSIVE SortDescending(_)
SortDescending(list) ==
    IF list = <<>> THEN <<>>
    ELSE LET sorted == SortDescending(SubSeq(list, 1, Len(list) - 1))
             x      == list[Len(list)]
             \* x goes behind every entry that is not smaller
             k      == Cardinality({j \in DOMAIN sorted :
                                      ~SignedLess(sorted[j].amount, x.amount)})
         IN  SubSeq(sorted, 1, k) \o <<x>> \o SubSeq(sorted, k + 1, Len(sorted))

\* max in the place of min
SignedMax(x, y) == IF SignedLess(y, x) THEN x ELSE y

\* min(debt_amount, credit_amount)
SignedMin(x, y) == IF SignedLess(y, x) THEN y ELSE x

\* stepping past the party whatever is left
NextIndexAlways(idx, left) == idx + 1

\* a pointer that stays where it is
NextIndexNever(idx, left) == idx

\* lines 131-132 and 135-136: step past a party whose amount left is below
\* EPSILON
NextIndex(idx, left) == IF SignedLess(left, Epsilon) THEN idx + 1 ELSE idx

\* recording only what is more than EPSILON
RecordedAbove(settlement_amount) == SignedLess(Epsilon, settlement_amount)

\* line 118: if settlement_amount >= EPSILON
Recorded(settlement_amount) == ~SignedLess(settlement_amount, Epsilon)

SettleInit ==
    /\ \E n \in 1..MaxParticipants :
           net_balances \in [1..n -> (0 - MaxNet)..MaxNet]
    /\ debtors = <<>>
    /\ creditors = <<>>
    /\ debtor_idx = 1
    /\ creditor_idx = 1
    /\ settlements = <<>>
    /\ pc = "partition"

\* lines 77-108: partition, sort, start the pointers
PartitionAndSort ==
    /\ pc = "partition"
    /\ debtors' = SortDescending(PartitionDebtors(net_balances, 1))
    /\ creditors' = SortDescending(PartitionCreditors(net_balances, 1))
    /\ settlements' = <<>>
    /\ debtor_idx' = 1
    /\ creditor_idx' = 1
    /\ pc' = "match"
    /\ UNCHANGED net_balances

\* lines 110-136: one iteration of the while loop
MatchStep ==
    /\ pc = "match"
    /\ debtor_idx <= Len(debtors)
    /\ creditor_idx <= Len(creditors)
    /\ LET debtor_id     == debtors[debtor_idx].participant_id
           debt_amount   == debtors[debtor_idx].amount
           creditor_id   == creditors[creditor_idx].participant_id
           credit_amount == creditors[creditor_idx].amount
           settlement_amount == SignedMin(debt_amount, credit_amount)
           debt_left   == SignedSub(debt_amount, settlement_amount)
           credit_left == SignedSub(credit_amount, settlement_amount)
       IN  /\ settlements' =
                IF Recorded(settlement_amount)
                THEN Append(settlements,
                            [from_participant |-> debtor_id,
                             to_participant   |-> creditor_id,
                             amount |-> _round_decimal(settlement_amount)])
                ELSE settlements
           /\ debtors' = [debtors EXCEPT ![debtor_idx].amount = debt_left]
           /\ creditors' = [creditors EXCEPT ![creditor_idx].amount = credit_left]
           /\ debtor_idx' = NextIndex(debtor_idx, debt_left)
           /\ creditor_idx' = NextIndex(creditor_idx, credit_left)
    /\ UNCHANGED <<net_balances, pc>>

\* line 138: the loop condition fails, return settlements
ReturnSettlements ==
    /\ pc = "match"
    /\ ~(debtor_idx <= Len(debtors) /\ creditor_idx <= Len(creditors))
    /\ pc' = "returned"
    /\ UNCHANGED settle_vars

\* ---------------------------------------------------------------------
\* The eligibility predicate, four times
\* ---------------------------------------------------------------------

\* utils._is_participant_active_on_date
utils_is_participant_active_on_date(participant, date) ==
    IF date < participant.start_date THEN FALSE
    ELSE IF participant.end_date # <<>> /\ date > participant.end_date[1] THEN FALSE
    ELSE TRUE

\* app._is_participant_active_on_date
app_is_participant_active_on_date(participant_dict, expense_date) ==
    IF expense_date < participant_dict.start_date THEN FALSE
    ELSE IF participant_dict.end_date # <<>>
            /\ expense_date > participant_dict.end_date[1] THEN FALSE
    ELSE TRUE

\* participants.get_active_participants, on the stored list all_participants
RECURSIVE get_active_participants(_, _)
get_active_participants(all_participants, date) ==
    IF all_participants = <<>> THEN <<>>
    ELSE LET p    == Head(all_participants)
             rest == get_active_participants(Tail(all_participants), date)
         IN  IF p.start_date > date THEN rest
             ELSE IF p.end_date # <<>> /\ p.end_date[1] < date THEN rest
             ELSE <<p>> \o rest

\* stored windows: remove_participant refuses an end_date before start_date
StoredWindows ==
    {w \in [start_date : 1..MaxWindowDate,
            end_date : {<<>>} \cup {<<d>> : d \in 1..MaxWindowDate}] :
        w.end_date = <<>> \/ w.start_date <= w.end_date[1]}

EligInit ==
    /\ window \in StoredWindows
    /\ on_date \in 1..MaxWindowDate
    /\ answers = <<>>
    /\ pc = "ask"

\* ask each implementation about the same participant and date
AskEligibility ==
    /\ pc = "ask"
    /\ answers' =
          [splitter     |-> splitter_is_participant_active_on_date(window, on_date),
           utils        |-> utils_is_participant_active_on_date(window, on_date),
           app          |-> app_is_participant_active_on_date(window, on_date),
           participants |-> get_active_participants(<<window>>, on_date) # <<>>]
    /\ pc' = "answered"
    /\ UNCHANGED <<window, on_date>>

\* ---------------------------------------------------------------------
\* utils.py: explain_participant_share
\* ---------------------------------------------------------------------

\* participants of a trip in the specification of the explainer
MaxExplainParticipants == 2

\* utils._get_eligible_beneficiaries
_get_eligible_beneficiaries(expense, pm) ==
    LET Eligible(b) ==
            /\ b \in DOMAIN pm
            /\ utils_is_participant_active_on_date(pm[b], expense.date)
    IN  SelectSeq(expense.beneficiaries, Eligible)

\* lines 175-192: the expense is skipped
SkippedInExplanation(participant_id, pm, expense) ==
    \/ \A j \in DOMAIN expense.beneficiaries :
          expense.beneficiaries[j] # participant_id
    \/ ~utils_is_participant_active_on_date(pm[participant_id], expense.date)
    \/ Len(_get_eligible_beneficiaries(expense, pm)) = 0

\* lines 195-196: share_per_person of an expense that is not skipped
ExplainedSharePerPerson(pm, expense) ==
    DecDiv(DecFromCents(expense.amount),
           Len(_get_eligible_beneficiaries(expense, pm)))

\* lines 199-207: the contribution record; expense_id is the position of
\* the expense in the list
Contribution(pm, expense, i) ==
    LET elig == _get_eligible_beneficiaries(expense, pm)
    IN  [expense_id           |-> i,
         date                 |-> expense.date,
         total_expense_amount |-> _round_decimal(Pos(DecFromCents(expense.amount))),
         beneficiaries        |-> elig,
         num_beneficiaries    |-> Len(elig),
         participant_share    |-> _round_decimal(Pos(ExplainedSharePerPerson(pm, expense)))]

\* lines 172-209: expense_contributions
RECURSIVE ExpenseContributions(_, _, _, _)
ExpenseContributions(participant_id, pm, exps, i) ==
    IF i > Len(exps) THEN <<>>
    ELSE (IF SkippedInExplanation(participant_id, pm, exps[i]) THEN <<>>
          ELSE <<Contribution(pm, exps[i], i)>>)
         \o ExpenseContributions(participant_id, pm, exps, i + 1)

\* lines 173 and 210: calculated_total_share
RECURSIVE CalculatedTotalShare(_, _, _, _)
CalculatedTotalShare(participant_id, pm, exps, i) ==
    IF i = 0 THEN DecZero
    ELSE IF SkippedInExplanation(participant_id, pm, exps[i])
         THEN CalculatedTotalShare(participant_id, pm, exps, i - 1)
         ELSE DecAdd(CalculatedTotalShare(participant_id, pm, exps, i - 1),
                     ExplainedSharePerPerson(pm, exps[i]))

\* lines 152-156: balances.get(participant_id, zeros)
BalanceInfo(participant_id, bals) ==
    IF participant_id \in DOMAIN bals THEN bals[participant_id]
    ELSE [total_paid |-> 0, total_share |-> 0, net_balance |-> 0]

\* the explanation with the total recomputed from the contributions
explain_participant_share_recomputed(participant_id, ps, exps, bals) ==
    LET pm == participant_map(ps)
    IN  IF participant_id \notin DOMAIN pm
        THEN [participant_id |-> participant_id, expense_contributions |-> <<>>,
              total_share |-> 0, total_paid |-> 0, net_balance |-> 0,
              error |-> TRUE]
        ELSE [participant_id |-> participant_id,
              expense_contributions |->
                  ExpenseContributions(participant_id, pm, exps, 1),
              total_share |-> _round_decimal(Pos(
                  CalculatedTotalShare(participant_id, pm, exps, Len(exps)))),
              total_paid  |-> BalanceInfo(participant_id, bals).total_paid,
              net_balance |-> BalanceInfo(participant_id, bals).net_balance,
              error |-> FALSE]

\* utils.explain_participant_share; error says whether the "error" key is
\* in the returned dict
explain_participant_share(participant_id, ps, exps, bals) ==
    LET pm == participant_map(ps)
    IN  IF participant_id \notin DOMAIN pm
        THEN [participant_id |-> participant_id, expense_contributions |-> <<>>,
              total_share |-> 0, total_paid |-> 0, net_balance |-> 0,
              error |-> TRUE]
        ELSE [participant_id |-> participant_id,
              expense_contributions |->
                  ExpenseContributions(participant_id, pm, exps, 1),
              total_share |-> BalanceInfo(participant_id, bals).total_share,
              total_paid  |-> BalanceInfo(participant_id, bals).total_paid,
              net_balance |-> BalanceInfo(participant_id, bals).net_balance,
              error |-> FALSE]

\* a trip of up to MaxExplainParticipants participants
ExplainInit ==
    /\ \E n \in 1..MaxExplainParticipants : participants \in Rosters(n)
    /\ balances = InitialBalances(participants)
    /\ expenses = <<>>
    /\ result = <<>>
    /\ pc = "loop"
    /\ explain_id = UnknownId
    /\ explain_balances = <<>>
    /\ explanation = <<>>

\* explain_participant_share called for a participant id, known or not, with
\* the balances just calculated or with an empty balances dict
Explain ==
    /\ pc = "done"
    /\ \E id \in {participants[i].participant_id : i \in DOMAIN participants}
                  \cup {UnknownId},
          bals \in {result, <<>>} :
          /\ explain_id' = id
          /\ explain_balances' = bals
          /\ explanation' = explain_participant_share(id, participants, expenses, bals)
    /\ pc' = "explained"
    /\ UNCHANGED calc_vars

\* ---------------------------------------------------------------------
\* app.py: index and explain_participant_expenses
\* ---------------------------------------------------------------------

\* participants of a trip in the specification of the web page
MaxAppParticipants == 2

\* expenses stored for the trip
MaxAppExpenses == 2

\* amounts in whole cents: 0.02, 0.25 and 90.00
AppAmounts == {2, 25, 9000}

\* what add_expense stores: payer and beneficiaries are participants of the
\* trip
StoredExpenses(n) ==
    [payer_id : 1..n, amount : AppAmounts,
     beneficiaries : {[i \in 1..k |-> i] : k \in 1..n} \cup {<<n>>},
     date : Dates]

\* participant_id in e.beneficiaries
Listed(participant_id, e) ==
    \E j \in DOMAIN e.beneficiaries : e.beneficiaries[j] = participant_id

\* lines 99-102: share of a listed participant, a float
AppShare(e) == FloatDivInt(FloatFromCents(e.amount), Len(e.beneficiaries))

\* lines 94-103: total_share after the first i expenses
RECURSIVE AppTotalShare(_, _, _)
AppTotalShare(participant_id, exps, i) ==
    IF i = 0 THEN FloatZero
    ELSE IF Listed(participant_id, exps[i])
         THEN FloatAdd(AppTotalShare(participant_id, exps, i - 1), AppShare(exps[i]))
         ELSE AppTotalShare(participant_id, exps, i - 1)

\* lines 93-113: total_paid after the first i expenses
RECURSIVE AppTotalPaid(_, _, _)
AppTotalPaid(participant_id, exps, i) ==
    IF i = 0 THEN FloatZero
    ELSE IF exps[i].payer_id = participant_id
         THEN FloatAdd(AppTotalPaid(participant_id, exps, i - 1),
                       FloatFromCents(exps[i].amount))
         ELSE AppTotalPaid(participant_id, exps, i - 1)

\* lines 104-110: the rows of "details"
RECURSIVE AppDetails(_, _, _)
AppDetails(participant_id, exps, i) ==
    IF i > Len(exps) THEN <<>>
    ELSE (IF Listed(participant_id, exps[i])
          THEN <<[amount        |-> exps[i].amount,
                  beneficiaries |-> Len(exps[i].beneficiaries),
                  share         |-> PyRound2(AppShare(exps[i])),
                  payer         |-> exps[i].payer_id]>>
          ELSE <<>>)
         \o AppDetails(participant_id, exps, i + 1)

\* app.explain_participant_expenses(participant_id, expenses, id_to_name);
\* money in whole cents
explain_participant_expenses(participant_id, exps) ==
    LET total_paid  == AppTotalPaid(participant_id, exps, Len(exps))
        total_share == AppTotalShare(participant_id, exps, Len(exps))
    IN  [details     |-> AppDetails(participant_id, exps, 1),
         total_paid  |-> PyRound2(total_paid),
         total_share |-> PyRound2(total_share),
         net         |-> PyRound2(FloatSub(total_paid, total_share))]

\* lines 151-157: a row of the summary from an entry of the balances
SummaryRow(data) ==
    [paid  |-> PyRound2(FloatFromSignedCents(data.total_paid)),
     share |-> PyRound2(FloatFromSignedCents(data.total_share)),
     net   |-> PyRound2(FloatFromSignedCents(data.net_balance))]

\* a trip as create_trip and add_participant / remove_participant leave it
AppInit ==
    /\ \E n \in 1..MaxAppParticipants : participants \in Rosters(n)
    /\ balances = <<>>
    /\ expenses = <<>>
    /\ result = <<>>
    /\ summary = <<>>
    /\ explanations = <<>>
    /\ pc = "trip"

\* app.add_exp: add_expense stores one more expense
AddExp ==
    /\ pc = "trip"
    /\ Len(expenses) < MaxAppExpenses
    /\ \E e \in StoredExpenses(Len(participants)) : expenses' = Append(expenses, e)
    /\ UNCHANGED <<participants, balances, result, pc, summary, explanations>>

\* app.index: the page is built from the stored participants and expenses
Index ==
    /\ pc = "trip"
    /\ IF expenses # <<>>
       THEN /\ result' = calculate_balances(participants, expenses)
            /\ summary' = [id \in DOMAIN result' |-> SummaryRow(result'[id])]
            /\ explanations' =
                  [id \in {participants[i].participant_id : i \in DOMAIN participants}
                      |-> explain_participant_expenses(id, expenses)]
       ELSE UNCHANGED <<result, summary, explanations>>
    /\ pc' = "shown"
    /\ UNCHANGED <<participants, balances, expenses>>

\* ---------------------------------------------------------------------
\* analytics.py: generate_analytics
\* ---------------------------------------------------------------------

\* expenses handed to one generate_analytics call
MaxAnalyticsExpenses == 3

\* dates 1..MaxAnalyticsDate
MaxAnalyticsDate == 3

\* two of the categories add_expense accepts
Categories == {"food", "hotel"}

\* amounts 0.005, 0.50, 2.00 and 2.50
AnalyticsAmounts ==
    {[amount |-> 0,   mills |-> 5],
     [amount |-> 50,  mills |-> 0],
     [amount |-> 200, mills |-> 0],
     [amount |-> 250, mills |-> 0]}

\* participant 1 is there from day 1, participant 2 from day 2
AnalyticsParticipants ==
    <<[participant_id |-> 1, start_date |-> 1, end_date |-> <<>>],
      [participant_id |-> 2, start_date |-> 2, end_date |-> <<>>]>>

\* expenses for participant 2 alone, paid by participant 1 or by an id that
\* names no participant
AnalyticsExpenses ==
    {[payer_id |-> p, amount |-> a.amount, mills |-> a.mills, category |-> c,
      beneficiaries |-> <<2>>, date |-> d] :
        p \in {1, UnknownId}, a \in AnalyticsAmounts, c \in Categories,
        d \in 1..MaxAnalyticsDate}

\* a dict is the list of its [key, value] entries in insertion order
HasKey(d, key) == \E i \in DOMAIN d : d[i].key = key

\* d[key] of a key that is in the dict
ValueOf(d, key) == d[CHOOSE i \in DOMAIN d : d[i].key = key].value

\* defaultdict(Decimal): d[key] += amount
DictAdd(d, key, amount) ==
    IF HasKey(d, key)
    THEN [i \in DOMAIN d |->
            IF d[i].key = key
            THEN [key |-> key, value |-> DecAdd(d[i].value, amount)]
            ELSE d[i]]
    ELSE Append(d, [key |-> key, value |-> DecAdd(DecZero, amount)])

\* the loop body counting an expense in its category and on its date only
\* when it has an eligible beneficiary
AccumulatedEligibleOnly(ps, acc, e) ==
    LET amount == AmountOf(e)
        counted == Len(eligible_beneficiaries(ps, e)) > 0
    IN  [category_totals |-> IF counted
                             THEN DictAdd(acc.category_totals, e.category, amount)
                             ELSE acc.category_totals,
         daily_totals    |-> IF counted
                             THEN DictAdd(acc.daily_totals, e.date, amount)
                             ELSE acc.daily_totals,
         payer_totals    |-> DictAdd(acc.payer_totals, e.payer_id, amount),
         total_spent     |-> DecAdd(acc.total_spent, amount)]

\* the loop body keeping the last amount of a payer in the place of the sum
AccumulatedLastPaid(ps, acc, e) ==
    LET amount == AmountOf(e)
    IN  [category_totals |-> DictAdd(acc.category_totals, e.category, amount),
         daily_totals    |-> DictAdd(acc.daily_totals, e.date, amount),
         payer_totals    |->
             IF HasKey(acc.payer_totals, e.payer_id)
             THEN [i \in DOMAIN acc.payer_totals |->
                      IF acc.payer_totals[i].key = e.payer_id
                      THEN [key |-> e.payer_id, value |-> amount]
                      ELSE acc.payer_totals[i]]
             ELSE DictAdd(acc.payer_totals, e.payer_id, amount),
         total_spent     |-> DecAdd(acc.total_spent, amount)]

\* lines 87-97: the loop body for one expense; ps is the participants
\* argument, which the loop does not read
Accumulated(ps, acc, e) ==
    LET amount == AmountOf(e)
    IN  [category_totals |-> DictAdd(acc.category_totals, e.category, amount),
         daily_totals    |-> DictAdd(acc.daily_totals, e.date, amount),
         payer_totals    |-> DictAdd(acc.payer_totals, e.payer_id, amount),
         total_spent     |-> DecAdd(acc.total_spent, amount)]

\* lines 100-109 and 121-124: the dict with every value rounded
RoundedDict(d) ==
    [i \in DOMAIN d |->
        [key |-> d[i].key, value |-> _round_decimal(Pos(d[i].value))]]

\* the day reported as the first key of the dict
FirstSpendingDay(daily) ==
    IF daily = <<>> THEN [date |-> <<>>, amount |-> <<0>>]
    ELSE [date   |-> <<daily[1].key>>,
          amount |-> <<_round_decimal(Pos(daily[1].value))>>]

\* lines 112-118: highest_spending_day; max() returns the first key with the
\* largest value.  A field that can be None is a list of at most one value.
HighestSpendingDay(daily) ==
    IF daily = <<>> THEN [date |-> <<>>, amount |-> <<0>>]
    ELSE LET i == CHOOSE i \in DOMAIN daily :
                    /\ \A j \in DOMAIN daily : ~DecLess(daily[i].value, daily[j].value)
                    /\ \A j \in 1..(i - 1) : DecLess(daily[j].value, daily[i].value)
         IN  [date   |-> <<daily[i].key>>,
              amount |-> <<_round_decimal(Pos(daily[i].value))>>]

\* a Decimal that is a whole number of half cents, as that number
HalfCentsOf(y) ==
    LET k == MillPos \div LimbDigits + 1
        p == 10 ^ (MillPos % LimbDigits)
    IN  (y[k + 1] * (Base \div p) + y[k] \div p) \div 5

\* Decimal.__truediv__ of two non-negative Decimals, y > 0 a whole number
\* of half cents: x / y = 200 x / (y / 0.005)
DecDivDec(x, y) == DecDiv(MulSmall(x, 200), HalfCentsOf(y))

\* lines 141 and 157: (amount / total_spent) * 100
Percentage(amount, total) == DecRound(MulSmall(DecDivDec(amount, total), 100), 0)

\* a payer warned from 40% on
PayerWarnedFromForty(percentage) == ~DecLess(percentage, DecFromCents(4000))

\* line 142: percentage > 40
PayerWarned(percentage) == DecLess(DecFromCents(4000), percentage)

\* a category warned from 50% on
CategoryWarnedFromHalf(percentage) == ~DecLess(percentage, DecFromCents(5000))

\* line 158: percentage > 50
CategoryWarned(percentage) == DecLess(DecFromCents(5000), percentage)

\* a day warned from the threshold on
DayWarnedFromThreshold(amount, threshold) == ~DecLess(amount, threshold)

\* line 171: amount > threshold
DayWarned(amount, threshold) == DecLess(threshold, amount)

\* lines 139-152: the payer warnings in dict order; a participant without
\* "name" is named by the id
PayerWarnings(payers, total) ==
    IF total = DecZero THEN <<>>
    ELSE LET hits == SelectSeq(payers,
                        LAMBDA en : PayerWarned(Percentage(en.value, total)))
         IN  [i \in DOMAIN hits |->
                [rule       |-> "payer",
                 key        |-> hits[i].key,
                 percentage |-> _round_decimal(Pos(Percentage(hits[i].value, total))),
                 amount     |-> _round_decimal(Pos(hits[i].value)),
                 of         |-> _round_decimal(Pos(total))]]

\* lines 155-162: the category warnings in dict order
CategoryWarnings(cats, total) ==
    IF total = DecZero THEN <<>>
    ELSE LET hits == SelectSeq(cats,
                        LAMBDA en : CategoryWarned(Percentage(en.value, total)))
         IN  [i \in DOMAIN hits |->
                [rule       |-> "category",
                 key        |-> hits[i].key,
                 percentage |-> _round_decimal(Pos(Percentage(hits[i].value, total))),
                 amount     |-> _round_decimal(Pos(hits[i].value)),
                 of         |-> _round_decimal(Pos(total))]]

\* lines 165-175: the daily warnings in dict order
DailyWarnings(daily, total) ==
    IF Len(daily) > 1
    THEN LET avg_daily == DecDiv(total, Len(daily))
             threshold == DecRound(MulSmall(avg_daily, 2), 0)
             hits == SelectSeq(daily, LAMBDA en : DayWarned(en.value, threshold))
         IN  [i \in DOMAIN hits |->
                [rule       |-> "daily",
                 key        |-> hits[i].key,
                 percentage |-> 0,
                 amount     |-> _round_decimal(Pos(hits[i].value)),
                 of         |-> _round_decimal(Pos(avg_daily))]]
    ELSE <<>>

\* generate_analytics starts on the participants and an expense list
AnalyticsInit ==
    /\ participants = AnalyticsParticipants
    /\ balances = <<>>
    /\ expenses = <<>>
    /\ result = <<>>
    /\ pc = "loop"
    /\ category_totals = <<>>
    /\ daily_totals = <<>>
    /\ payer_totals = <<>>
    /\ total_spent = DecZero
    /\ analytics = <<>>
    /\ warnings = <<>>

\* one iteration of `for expense in expenses`
AccumulateExpense ==
    /\ pc = "loop"
    /\ Len(expenses) < MaxAnalyticsExpenses
    /\ \E e \in AnalyticsExpenses :
          LET acc == Accumulated(participants,
                        [category_totals |-> category_totals,
                         daily_totals    |-> daily_totals,
                         payer_totals    |-> payer_totals,
                         total_spent     |-> total_spent], e)
          IN  /\ expenses' = Append(expenses, e)
              /\ category_totals' = acc.category_totals
              /\ daily_totals' = acc.daily_totals
              /\ payer_totals' = acc.payer_totals
              /\ total_spent' = acc.total_spent
    /\ UNCHANGED <<participants, balances, result, pc, analytics, warnings>>

\* lines 99-180: the list is exhausted; build the analytics and the warnings
ReturnAnalytics ==
    /\ pc = "loop"
    /\ analytics' =
          [category_breakdown   |-> RoundedDict(category_totals),
           daily_spending       |-> RoundedDict(daily_totals),
           highest_spending_day |-> HighestSpendingDay(daily_totals),
           payer_totals         |-> RoundedDict(payer_totals)]
    /\ warnings' = PayerWarnings(payer_totals, total_spent)
                    \o CategoryWarnings(category_totals, total_spent)
                    \o DailyWarnings(daily_totals, total_spent)
    /\ pc' = "reported"
    /\ UNCHANGED <<participants, balances, expenses, result, category_totals,
                   daily_totals, payer_totals, total_spent>>

\* ---------------------------------------------------------------------
\* Specifications
\* ---------------------------------------------------------------------

CalcIdle ==
    /\ participants = <<>>
    /\ balances = <<>>
    /\ expenses = <<>>
    /\ result = <<>>

SettleIdle ==
    /\ net_balances = <<>>
    /\ debtors = <<>>
    /\ creditors = <<>>
    /\ debtor_idx = 1
    /\ creditor_idx = 1
    /\ settlements = <<>>

EligIdle ==
    /\ window = <<>>
    /\ on_date = 0
    /\ answers = <<>>

ExplainIdle ==
    /\ explain_id = UnknownId
    /\ explain_balances = <<>>
    /\ explanation = <<>>

AppIdle ==
    /\ summary = <<>>
    /\ explanations = <<>>

AnalyticsIdle ==
    /\ category_totals = <<>>
    /\ daily_totals = <<>>
    /\ payer_totals = <<>>
    /\ total_spent = DecZero
    /\ analytics = <<>>
    /\ warnings = <<>>

ViewIdle == ExplainIdle /\ AppIdle /\ AnalyticsIdle

StoreIdle ==
    /\ outcome = <<>>
    /\ calls = <<>>
    /\ settlement_docs = <<>>
    /\ calculated = <<>>
    /\ fetched = <<>>

\* calculate_balances on every participants list and expense list in bounds
Init == CalcInit /\ SettleIdle /\ EligIdle /\ ViewIdle /\ StoreIdle

Next ==
    \/ ProcessExpense /\ UNCHANGED <<settle_vars, elig_vars, view_vars, store_vars>>
    \/ ReturnBalances /\ UNCHANGED <<settle_vars, elig_vars, view_vars, store_vars>>

Spec == Init /\ [][Next]_vars

\* calculate_balances on long expense lists of three participants
InitDrift == DriftInit /\ SettleIdle /\ EligIdle /\ ViewIdle /\ StoreIdle

NextDrift ==
    \/ ProcessDriftExpense /\ UNCHANGED <<settle_vars, elig_vars, view_vars, store_vars>>
    \/ ReturnBalances /\ UNCHANGED <<settle_vars, elig_vars, view_vars, store_vars>>

SpecDrift == InitDrift /\ [][NextDrift]_vars

\* optimize_settlements on every balances dict in bounds
InitSettle == SettleInit /\ CalcIdle /\ EligIdle /\ ViewIdle /\ StoreIdle

NextSettle ==
    \/ PartitionAndSort /\ UNCHANGED <<calc_vars, elig_vars, view_vars, store_vars>>
    \/ MatchStep /\ UNCHANGED <<calc_vars, elig_vars, view_vars, store_vars>>
    \/ ReturnSettlements /\ UNCHANGED <<calc_vars, elig_vars, view_vars, store_vars>>

SpecSettle == InitSettle /\ [][NextSettle]_vars

\* the matching loop run to its end: the call is not preempted for ever, so
\* an iteration or the return that can be taken is taken
LoopStep ==
    (MatchStep \/ ReturnSettlements) /\ UNCHANGED <<calc_vars, elig_vars, view_vars, store_vars>>

\* the balances of the runs whose end is checked
MaxLiveParticipants == 3

InitSettleLive == InitSettle /\ Len(net_balances) <= MaxLiveParticipants

SpecSettleLive == InitSettleLive /\ [][NextSettle]_vars /\ WF_vars(LoopStep)

\* the eligibility predicate on every stored window and date in bounds
InitElig == EligInit /\ CalcIdle /\ SettleIdle /\ ViewIdle /\ StoreIdle

NextElig == AskEligibility /\ UNCHANGED <<calc_vars, settle_vars, view_vars, store_vars>>

SpecElig == InitElig /\ [][NextElig]_vars

\* calculate_balances followed by explain_participant_share
InitExplain == ExplainInit /\ SettleIdle /\ EligIdle /\ AppIdle /\ AnalyticsIdle /\ StoreIdle

NextExplain ==
    \/ ProcessExpense /\ UNCHANGED <<settle_vars, elig_vars, view_vars, store_vars>>
    \/ ReturnBalances /\ UNCHANGED <<settle_vars, elig_vars, view_vars, store_vars>>
    \/ Explain /\ UNCHANGED <<settle_vars, elig_vars, app_vars, analytics_vars, store_vars>>

SpecExplain == InitExplain /\ [][NextExplain]_vars

\* the web page of a trip
InitApp == AppInit /\ SettleIdle /\ EligIdle /\ ExplainIdle /\ AnalyticsIdle /\ StoreIdle

NextApp ==
    \/ AddExp /\ UNCHANGED <<settle_vars, elig_vars, explain_vars, analytics_vars, store_vars>>
    \/ Index /\ UNCHANGED <<settle_vars, elig_vars, explain_vars, analytics_vars, store_vars>>

SpecApp == InitApp /\ [][NextApp]_vars

\* generate_analytics on every expense list in bounds
InitAnalytics == AnalyticsInit /\ SettleIdle /\ EligIdle /\ ExplainIdle /\ AppIdle /\ StoreIdle

NextAnalytics ==
    \/ AccumulateExpense /\ UNCHANGED <<settle_vars, elig_vars, explain_vars, app_vars, store_vars>>
    \/ ReturnAnalytics /\ UNCHANGED <<settle_vars, elig_vars, explain_vars, app_vars, store_vars>>

SpecAnalytics == InitAnalytics /\ [][NextAnalytics]_vars

\* ---------------------------------------------------------------------
\* What the claims speak of
\* ---------------------------------------------------------------------

RECURSIVE Lcm(_)
Lcm(n) ==
    IF n <= 1 THEN 1
    ELSE LET m == Lcm(n - 1)
             g == CHOOSE d \in 1..n :
                     /\ n % d = 0 /\ m % d = 0
                     /\ \A c \in 1..n : (n % c = 0 /\ m % c = 0) => c <= d
         IN  (m \div g) * n

\* every amount / k, k up to the longest beneficiary list, is a whole number
\* of 1/ShareUnit cents
ShareUnit == Lcm(MaxParticipants + 1)

\* how often id occurs in the list
RECURSIVE Count(_, _)
Count(list, id) ==
    IF list = <<>> THEN 0
    ELSE (IF Head(list) = id THEN 1 ELSE 0) + Count(Tail(list), id)

RECURSIVE SumOver(_, _)
SumOver(f, S) ==
    IF S = {} THEN 0
    ELSE LET x == CHOOSE y \in S : TRUE IN f[x] + SumOver(f, S \ {x})

ParticipantIds == {participants[i].participant_id : i \in DOMAIN participants}

\* active on the date: start_date <= date, and date <= end_date if there is one
ActiveOn(p, date) ==
    /\ p.start_date <= date
    /\ p.end_date = <<>> \/ date <= p.end_date[1]

\* the entries of the beneficiary list that name a participant active on the
\* expense date
EligibleEntries(e) ==
    LET Ok(b) == \E i \in DOMAIN participants :
                    /\ participants[i].participant_id = b
                    /\ ActiveOn(participants[i], e.date)
    IN  SelectSeq(e.beneficiaries, Ok)

\* the exact sum of the amounts id paid, in cents
ExactPaid(id) ==
    SumOver([i \in DOMAIN expenses |->
                IF expenses[i].payer_id = id THEN expenses[i].amount ELSE 0],
            DOMAIN expenses)

\* the exact sum of the shares of id, in 1/ShareUnit cents
ExactShare(id) ==
    SumOver([i \in DOMAIN expenses |->
                LET elig == EligibleEntries(expenses[i])
                IN  IF Len(elig) = 0 THEN 0
                    ELSE Count(elig, id) * expenses[i].amount
                            * (ShareUnit \div Len(elig))],
            DOMAIN expenses)

\* x/unit cents, x >= 0, rounded half up to whole cents
RoundHalfUp(x, unit) == (2 * x + unit) \div (2 * unit)

Abs(x) == IF x < 0 THEN 0 - x ELSE x

TotalPaid == SumOver([id \in DOMAIN result |-> result[id].total_paid], DOMAIN result)

TotalShare == SumOver([id \in DOMAIN result |-> result[id].total_share], DOMAIN result)

EveryExpenseAssigned ==
    \A i \in DOMAIN expenses : Len(EligibleEntries(expenses[i])) > 0

EveryPayerKnown ==
    \A i \in DOMAIN expenses : expenses[i].payer_id \in ParticipantIds

\* ---------------------------------------------------------------------
\* Claims
\* ---------------------------------------------------------------------

\* C1: the returned total_paid and total_share of every participant are the
\* round-half-up 2-decimal values of the exact sums: amount for each expense
\* paid, amount / eligible_count for each entry in an eligible list, nothing
\* from an expense without eligible beneficiary.
C1_RoundedExactSums ==
    pc = "done" =>
        \A id \in DOMAIN result :
            /\ result[id].total_paid = ExactPaid(id)
            /\ result[id].total_share = RoundHalfUp(ExactShare(id), ShareUnit)

\* C2: net_balance is the returned total_paid minus the returned
\* total_share.
C2_NetFromRoundedFigures ==
    pc = "done" =>
        \A id \in DOMAIN result :
            result[id].net_balance = result[id].total_paid - result[id].total_share

\* C3 as stated: when every expense has an eligible beneficiary, the sums of
\* total_paid and of total_share differ by at most one cent per expense.
C3_ConservationPerExpense ==
    (pc = "done" /\ EveryExpenseAssigned) =>
        Abs(TotalPaid - TotalShare) <= Len(expenses)

\* C3 amended: when every expense has a known payer and an eligible
\* beneficiary, the sums of total_paid and of total_share differ by at most
\* one cent per participant.
C3_ConservationPerParticipant ==
    (pc = "done" /\ EveryExpenseAssigned /\ EveryPayerKnown) =>
        Abs(TotalPaid - TotalShare) <= Len(participants)

\* C3 witness: a 0.02 expense split four ways returned with 0.01 for each
C3_Witness ==
    /\ pc = "done"
    /\ Len(expenses) = 1
    /\ EveryExpenseAssigned /\ EveryPayerKnown
    /\ TotalPaid = 2
    /\ TotalShare = 4

\* C9: the result has exactly the participants' ids as keys, and a
\* participant who paid nothing and is in no eligible list has 0, 0, 0.
C9_EveryParticipantListed ==
    pc = "done" =>
        /\ DOMAIN result = ParticipantIds
        /\ \A id \in ParticipantIds :
              (\A i \in DOMAIN expenses :
                  /\ expenses[i].payer_id # id
                  /\ Count(EligibleEntries(expenses[i]), id) = 0)
              => result[id] = [total_paid |-> 0, total_share |-> 0,
                               net_balance |-> 0]

\* C9 witness: expenses were handled, someone has a share, and a participant
\* listed on an expense outside their window is returned with zeros
C9_Witness ==
    /\ pc = "done"
    /\ \E id \in ParticipantIds, other \in ParticipantIds :
          /\ \E i \in DOMAIN expenses :
                /\ Count(expenses[i].beneficiaries, id) > 0
                /\ Count(EligibleEntries(expenses[i]), id) = 0
          /\ \A i \in DOMAIN expenses : expenses[i].payer_id # id
          /\ result[id].total_share = 0
          /\ result[other].total_share > 0

\* the expense list with every beneficiary id that names no participant
\* taken out of the lists
KnownOnly(list) == SelectSeq(list, LAMBDA b : b \in ParticipantIds)

WithoutUnknownBeneficiaries ==
    [i \in DOMAIN expenses |->
        [expenses[i] EXCEPT !.beneficiaries = KnownOnly(@)]]

\* the expense list with participant 1 as payer of every expense
PaidByFirst ==
    [i \in DOMAIN expenses |-> [expenses[i] EXCEPT !.payer_id = 1]]

\* C10: no key of the result is an unknown id; an expense of an unknown
\* payer adds to no total_paid and its shares are allocated as for any other
\* payer; an unknown beneficiary id changes neither the eligible list nor the
\* divisor.
C10_UnknownIdsSkipped ==
    pc = "done" =>
        /\ UnknownId \notin DOMAIN result
        /\ \A id \in DOMAIN result : result[id].total_paid = ExactPaid(id)
        /\ LET same == calculate_balances(participants, PaidByFirst)
           IN  \A id \in DOMAIN result :
                  result[id].total_share = same[id].total_share
        /\ result = calculate_balances(participants, WithoutUnknownBeneficiaries)

\* C10 witness: an unknown payer's expense gave a share, and a list with an
\* unknown id was split among the known entries only
C10_Witness ==
    /\ pc = "done"
    /\ Len(expenses) = 2
    /\ expenses[1].payer_id = UnknownId
    /\ expenses[1].beneficiaries = <<1>>
    /\ expenses[2].payer_id = 1
    /\ expenses[2].beneficiaries = <<1, UnknownId>>
    /\ ActiveOn(participants[1], expenses[1].date)
    /\ ActiveOn(participants[1], expenses[2].date)
    /\ result[1].total_paid = expenses[2].amount
    /\ result[1].total_share = expenses[1].amount + expenses[2].amount

\* what the participant pays out according to the returned settlements
PaidOut(id) ==
    SumOver([i \in DOMAIN settlements |->
                IF settlements[i].from_participant = id
                THEN settlements[i].amount ELSE 0],
            DOMAIN settlements)

\* what the participant receives according to the returned settlements
Received(id) ==
    SumOver([i \in DOMAIN settlements |->
                IF settlements[i].to_participant = id
                THEN settlements[i].amount ELSE 0],
            DOMAIN settlements)

\* the participants of the balances argument
SettleIds == DOMAIN net_balances

Debtors == {id \in SettleIds : net_balances[id] < 0 - EPSILON}

Creditors == {id \in SettleIds : net_balances[id] > EPSILON}

TotalDebt == SumOver([id \in Debtors |-> 0 - net_balances[id]], Debtors)

TotalCredit == SumOver([id \in Creditors |-> net_balances[id]], Creditors)

Unsettled == Debtors \cup Creditors

\* C5 as stated: the number of settlements is at most the number of
\* participants with |net_balance| > 0.01, minus 1.
C5_AtMostNMinusOne ==
    pc = "returned" => Len(settlements) <= Cardinality(Unsettled) - 1

\* C5 amended: if some participant has |net_balance| > 0.01, the number of
\* settlements is at most the number of such participants minus 1; if none
\* has, the list is empty.
C5_AtMostNMinusOneIfAny ==
    pc = "returned" =>
        IF Unsettled = {} THEN settlements = <<>>
        ELSE Len(settlements) <= Cardinality(Unsettled) - 1

\* C5 witness: four participants to settle, three settlements
C5_Witness ==
    /\ pc = "returned"
    /\ Cardinality(Unsettled) = 4
    /\ Len(settlements) = 3

C8_EligibilityAgrees ==
    pc = "answered" =>
        LET expected ==
                /\ window.start_date <= on_date
                /\ window.end_date = <<>> \/ on_date <= window.end_date[1]
        IN  /\ answers.splitter = expected
            /\ answers.utils = expected
            /\ answers.app = expected
            /\ answers.participants = expected

\* C8 witness: a participant asked about on the last day of a window that
\* also started that day, and found active by all four
C8_Witness ==
    /\ pc = "answered"
    /\ window.end_date = <<on_date>>
    /\ window.start_date = on_date
    /\ answers.splitter /\ answers.utils /\ answers.app /\ answers.participants

\* the expense list in the order given by a permutation of its positions
Reordered(perm) == [i \in DOMAIN expenses |-> expenses[perm[i]]]

\* C11: calculate_balances returns the same balances for every permutation
\* of the expense list.
C11_OrderIndependent ==
    pc = "done" =>
        \A perm \in Permutations(DOMAIN expenses) :
            calculate_balances(participants, Reordered(perm)) = result

\* the positions of the expenses listed in the explanation
ExplainedExpenses ==
    {explanation.expense_contributions[k].expense_id :
        k \in DOMAIN explanation.expense_contributions}

\* the contribution the explanation lists for the expense at position i
ContributionOf(i) ==
    explanation.expense_contributions[
        CHOOSE k \in DOMAIN explanation.expense_contributions :
            explanation.expense_contributions[k].expense_id = i]

\* what calculate_balances adds to the total_share of id for the expense
\* alone, in cents
ShareAddedFor(id, e) ==
    _round_decimal(Pos(
        ProcessedBalances(participants, InitialBalances(participants), e)[id]
            .total_share))

\* C12: for a known participant and every expense, the explanation lists
\* the expense exactly when calculate_balances adds a share for the
\* participant on it, num_beneficiaries is the divisor calculate_balances
\* used, and participant_share is the amount calculate_balances added to the
\* participant's total_share for the expense.
C12_ExplainerAgrees ==
    (pc = "explained" /\ explain_id \in ParticipantIds) =>
        \A i \in DOMAIN expenses :
            /\ i \in ExplainedExpenses
                  <=> Count(EligibleEntries(expenses[i]), explain_id) > 0
            /\ i \in ExplainedExpenses =>
                  /\ ContributionOf(i).num_beneficiaries
                        = Len(EligibleEntries(expenses[i]))
                  /\ ContributionOf(i).participant_share
                        = ShareAddedFor(explain_id, expenses[i])

C13_TransparencyMatchesSummary ==
    (pc = "shown" /\ expenses # <<>>) =>
        \A id \in ParticipantIds :
            LET bal == calculate_balances(participants, expenses)[id]
            IN  /\ explanations[id].total_paid = bal.total_paid
                /\ explanations[id].total_share = bal.total_share
                /\ explanations[id].net = bal.net_balance

\* ---------------------------------------------------------------------
\* the spend of the processed expenses, counted in half cents
\* ---------------------------------------------------------------------

\* the amount of an expense as a whole number of half cents
HalfCents(e) == e.amount * 2 + e.mills \div 5

\* the expenses (by position) that satisfy a condition
ExpensesWhere(Test(_)) == {i \in DOMAIN expenses : Test(expenses[i])}

\* the full amounts of a set of expenses added up, in half cents
SpendOf(S) == SumOver([i \in S |-> HalfCents(expenses[i])], S)

TotalSpend == SpendOf(DOMAIN expenses)

CategorySpend(c) == SpendOf(ExpensesWhere(LAMBDA e : e.category = c))

PayerSpend(p) == SpendOf(ExpensesWhere(LAMBDA e : e.payer_id = p))

DaySpend(d) == SpendOf(ExpensesWhere(LAMBDA e : e.date = d))

ExpenseCategories == {expenses[i].category : i \in DOMAIN expenses}

ExpensePayers == {expenses[i].payer_id : i \in DOMAIN expenses}

ExpenseDates == {expenses[i].date : i \in DOMAIN expenses}

\* the warnings of one rule, and what they are about
WarningsOf(rule) == {i \in DOMAIN warnings : warnings[i].rule = rule}

WarnedKeys(rule) == {warnings[i].key : i \in WarningsOf(rule)}

\* C15: there is a category warning for exactly the categories whose total
\* is strictly more than 50% of the total spend, one warning each, and none
\* when the total spend is 0.
C15_CategoryWarnings ==
    pc = "reported" =>
        /\ WarnedKeys("category") =
              {c \in ExpenseCategories : 2 * CategorySpend(c) > TotalSpend}
        /\ Cardinality(WarningsOf("category")) = Cardinality(WarnedKeys("category"))
        /\ TotalSpend = 0 => WarningsOf("category") = {}

\* C15 witness: hotel is 60% of the spend and is warned about, food is the
\* other 40% and is not
C15_Witness ==
    /\ pc = "reported"
    /\ TotalSpend > 0
    /\ 5 * CategorySpend("hotel") = 3 * TotalSpend
    /\ 5 * CategorySpend("food") = 2 * TotalSpend
    /\ WarnedKeys("category") = {"hotel"}

\* C16: there is a payer warning for exactly the payer ids whose paid amount
\* is strictly more than 40% of the total spend, one warning each, whatever
\* the category and daily rules find.
C16_PayerWarnings ==
    pc = "reported" =>
        /\ WarnedKeys("payer") =
              {p \in ExpensePayers : 5 * PayerSpend(p) > 2 * TotalSpend}
        /\ Cardinality(WarningsOf("payer")) = Cardinality(WarnedKeys("payer"))

\* C16 witness: participant 1 paid exactly 40% and is not warned about, the
\* other payer paid 60% and is, and no category or daily warning fires
C16_Witness ==
    /\ pc = "reported"
    /\ TotalSpend > 0
    /\ 5 * PayerSpend(1) = 2 * TotalSpend
    /\ WarnedKeys("payer") = {UnknownId}
    /\ WarningsOf("category") = {}
    /\ WarningsOf("daily") = {}

\* C17: there is a daily warning for a date exactly when the expenses are on
\* at least 2 distinct dates and the date's total is strictly more than
\* 2 * (total spend / number of distinct dates); none with a single date.
C17_DailyWarnings ==
    pc = "reported" =>
        LET n == Cardinality(ExpenseDates)
        IN  /\ WarnedKeys("daily") =
                  {d \in ExpenseDates : n >= 2 /\ n * DaySpend(d) > 2 * TotalSpend}
            /\ Cardinality(WarningsOf("daily")) = Cardinality(WarnedKeys("daily"))
            /\ n = 1 => WarningsOf("daily") = {}

\* C17 witness: three dates, 2.50 on one of them and 0.50 on each of the
\* others: the first is more than twice the mean of 1.1666... and is warned
\* about
C17_Witness ==
    /\ pc = "reported"
    /\ Cardinality(ExpenseDates) = 3
    /\ TotalSpend = 700
    /\ \E d \in ExpenseDates : DaySpend(d) = 500 /\ WarnedKeys("daily") = {d}

\* C18: for the same participants and expenses, every entry payer_totals[id]
\* is the total_paid of id in calculate_balances, and every participant with
\* total_paid > 0 has an entry in payer_totals.
C18_PayerTotalsMatch ==
    pc = "reported" =>
        LET bal == calculate_balances(participants, expenses)
            totals == analytics.payer_totals
        IN  /\ \A i \in DOMAIN totals :
                  /\ totals[i].key \in DOMAIN bal
                  /\ totals[i].value = bal[totals[i].key].total_paid
            /\ \A id \in DOMAIN bal :
                  bal[id].total_paid > 0 => HasKey(totals, id)

\* the values of a dict added up
ValuesTotal(d) == SumOver([i \in DOMAIN d |-> d[i].value], DOMAIN d)

\* every key of the dict with the spend of its expenses: the rounded sum of
\* their full amounts
RoundedSpends(d, keys, Spend(_)) ==
    /\ {d[i].key : i \in DOMAIN d} = keys
    /\ Len(d) = Cardinality(keys)
    /\ \A i \in DOMAIN d : d[i].value = RoundHalfUp(Spend(d[i].key), 2)

FullAmountsPerCategoryAndDate ==
    /\ RoundedSpends(analytics.category_breakdown, ExpenseCategories, CategorySpend)
    /\ RoundedSpends(analytics.daily_spending, ExpenseDates, DaySpend)

WholeCents == \A i \in DOMAIN expenses : expenses[i].mills = 0

\* C19 as stated: each value of category_breakdown and of daily_spending is
\* the rounded sum of the full amounts of the expenses of that category or
\* date, whoever is eligible, and so the two maps add up to the same total.
C19_SameTotalSpend ==
    pc = "reported" =>
        /\ FullAmountsPerCategoryAndDate
        /\ ValuesTotal(analytics.category_breakdown)
              = ValuesTotal(analytics.daily_spending)

\* C19 amended: each value is the rounded sum of the full amounts, and the
\* two maps add up to the same total, the total spend, when every amount is
\* a whole number of cents.
C19_FullAmounts ==
    pc = "reported" =>
        /\ FullAmountsPerCategoryAndDate
        /\ WholeCents =>
              /\ ValuesTotal(analytics.category_breakdown) * 2 = TotalSpend
              /\ ValuesTotal(analytics.daily_spending) * 2 = TotalSpend

\* C19 witness: an expense of 2.50 on day 1 for participant 2 alone, who
\* joins on day 2, so with no eligible beneficiary, and 0.50 on day 2; the
\* 2.50 is in its category and in its date
C19_Witness ==
    /\ pc = "reported"
    /\ Len(expenses) = 2
    /\ expenses[1].date = 1 /\ expenses[1].amount = 250
    /\ _get_eligible_beneficiaries(expenses[1], participant_map(participants)) = <<>>
    /\ expenses[2].date = 2 /\ expenses[2].amount = 50
    /\ expenses[2].category # expenses[1].category
    /\ ValueOf(analytics.daily_spending, 1) = 250
    /\ ValueOf(analytics.category_breakdown, expenses[1].category) = 250

\* highest_spending_day names a date of the largest daily total and reports
\* that total, rounded
HighestIsMaximal ==
    LET day == analytics.highest_spending_day
    IN  /\ Len(day.date) = 1
        /\ day.date[1] \in ExpenseDates
        /\ \A d \in ExpenseDates : DaySpend(day.date[1]) >= DaySpend(d)
        /\ day.amount = <<RoundHalfUp(DaySpend(day.date[1]), 2)>>

\* C20 as stated: highest_spending_day is a date whose daily total is at
\* least every other date's, reported with that total; with no expenses its
\* fields are none.
C20_HighestDayOrNone ==
    pc = "reported" =>
        IF expenses = <<>>
        THEN /\ analytics.highest_spending_day.date = <<>>
             /\ analytics.highest_spending_day.amount = <<>>
        ELSE HighestIsMaximal

\* C20 amended: with no expenses the date is none and the amount is 0.0.
C20_HighestDayOrZero ==
    pc = "reported" =>
        IF expenses = <<>>
        THEN /\ analytics.highest_spending_day.date = <<>>
             /\ analytics.highest_spending_day.amount = <<0>>
        ELSE HighestIsMaximal

\* C20 witness: 0.50 on the first date of the list and 2.50 on a later one,
\* which is the day reported, with 2.50
C20_Witness ==
    /\ pc = "reported"
    /\ Len(expenses) = 2
    /\ expenses[1].date # expenses[2].date
    /\ expenses[1].amount = 50
    /\ expenses[2].amount = 250
    /\ analytics.highest_spending_day =
          [date |-> <<expenses[2].date>>, amount |-> <<250>>]

\* ---------------------------------------------------------------------
\* the matching loop of optimize_settlements, step by step
\* ---------------------------------------------------------------------

\* the loop condition of line 110
InLoop ==
    /\ pc = "match"
    /\ debtor_idx <= Len(debtors)
    /\ creditor_idx <= Len(creditors)

\* the debt or credit a party of a list started with
InitialAmount(party) == SignedAbs(DecFromNet(net_balances[party.participant_id]))

\* the party at idx has at least the amount left of every party from idx on
LargestLeft(list, idx) ==
    \A j \in idx..Len(list) : ~SignedLess(list[idx].amount, list[j].amount)

\* the party at idx started with at least the amount of every party behind
\* it, and nothing was taken from those yet
FirstOfSorted(list, idx) ==
    \A j \in (idx + 1)..Len(list) :
        /\ ~SignedLess(InitialAmount(list[idx]), InitialAmount(list[j]))
        /\ list[j].amount = InitialAmount(list[j])

\* this iteration records the smaller of the two amounts left, from the
\* debtor to the creditor at the pointers
SettlesTheMinimum ==
    settlements' = Append(settlements,
        [from_participant |-> debtors[debtor_idx].participant_id,
         to_participant   |-> creditors[creditor_idx].participant_id,
         amount |-> IF SignedLess(creditors[creditor_idx].amount,
                                  debtors[debtor_idx].amount)
                    THEN _round_decimal(creditors[creditor_idx].amount)
                    ELSE _round_decimal(debtors[debtor_idx].amount)])

IterationClears ==
    /\ Len(settlements') = Len(settlements) + 1
    /\ \/ debtors'[debtor_idx].amount.mag = DecZero
       \/ creditors'[creditor_idx].amount.mag = DecZero
    /\ debtor_idx' \in {debtor_idx, debtor_idx + 1}
    /\ creditor_idx' \in {creditor_idx, creditor_idx + 1}
    /\ debtor_idx' + creditor_idx' > debtor_idx + creditor_idx

\* the loop has ended because one of the lists is exhausted
Exhausted ==
    \/ debtor_idx = Len(debtors) + 1
    \/ creditor_idx = Len(creditors) + 1

\* every iteration records one settlement, so the settlements count the
\* iterations
Iterations == Len(settlements)

\* C25 as stated: the loop terminates for every balances input; each
\* iteration fully clears at least one party and advances at least one
\* pointer, the loop runs at most (debtors + creditors - 1) times and stops
\* when either list is exhausted.
C25_AtMostPartiesMinusOne ==
    /\ [][InLoop => IterationClears]_vars
    /\ [](pc = "returned" =>
            /\ Exhausted
            /\ Iterations <= Len(debtors) + Len(creditors) - 1)
    /\ (pc = "match") ~> (pc = "returned")

\* C25 amended: the loop does not run at all when there is no debtor or no
\* creditor, and at most (debtors + creditors - 1) times otherwise.
C25_AtMostPartiesMinusOneIfAny ==
    /\ [][InLoop => IterationClears]_vars
    /\ [](pc = "returned" =>
            /\ Exhausted
            /\ IF debtors = <<>> \/ creditors = <<>>
               THEN Iterations = 0
               ELSE Iterations <= Len(debtors) + Len(creditors) - 1)
    /\ (pc = "match") ~> (pc = "returned")

\* C25 witness: two debtors and a creditor, and the loop ended after two
\* iterations
C25_Witness ==
    /\ pc = "returned"
    /\ Len(debtors) = 2
    /\ Len(creditors) = 1
    /\ Iterations = 2

\* the amount matched in this iteration
Matched == SignedMin(debtors[debtor_idx].amount, creditors[creditor_idx].amount)

OneCent == Pos(DecFromCents(1))

\* C26: every settlement has an amount of at least 0.01.  In every iteration
\* the match is recorded when its amount is at least 0.01 and not recorded
\* when it is below; recorded or not, both remaining amounts are reduced by
\* the amount matched and a pointer moves on.
C26_NoMicroSettlements ==
    /\ [](\A i \in DOMAIN settlements : settlements[i].amount >= 1)
    /\ [][InLoop =>
            /\ IF SignedLess(Matched, OneCent)
               THEN settlements' = settlements
               ELSE /\ Len(settlements') = Len(settlements) + 1
                    /\ settlements'[Len(settlements')].amount >= 1
            /\ debtors'[debtor_idx].amount =
                  SignedSub(debtors[debtor_idx].amount, Matched)
            /\ creditors'[creditor_idx].amount =
                  SignedSub(creditors[creditor_idx].amount, Matched)
            /\ debtor_idx' + creditor_idx' > debtor_idx + creditor_idx]_vars

\* C26 witness: a debtor with exactly 0.01 left after a first settlement was
\* matched again, and the 0.01 is recorded
C26_Witness ==
    /\ pc = "match"
    /\ Len(settlements) = 2
    /\ settlements[2].amount = 1
    /\ settlements[2].from_participant = settlements[1].from_participant

\* the amounts of all settlements added up
TotalSettled ==
    SumOver([i \in DOMAIN settlements |-> settlements[i].amount], DOMAIN settlements)

\* nothing left of a party is below zero
NothingOverdrawn(list) ==
    \A i \in DOMAIN list : ~SignedLess(list[i].amount, Pos(DecZero))

\* C30: for net balances of whole cents, no remaining amount ever goes
\* negative; on return every debtor has paid out exactly their debt or every
\* creditor has received exactly their credit, the settlements total
\* min(debts, credits), and nobody pays or receives more than their own debt
\* or credit.
C30_OneSideSettledExactly ==
    /\ NothingOverdrawn(debtors)
    /\ NothingOverdrawn(creditors)
    /\ pc = "returned" =>
          /\ \/ \A id \in Debtors : PaidOut(id) = 0 - net_balances[id]
             \/ \A id \in Creditors : Received(id) = net_balances[id]
          /\ TotalSettled = IF TotalDebt < TotalCredit THEN TotalDebt ELSE TotalCredit
          /\ \A id \in SettleIds :
                /\ PaidOut(id) <= (IF id \in Debtors THEN 0 - net_balances[id] ELSE 0)
                /\ Received(id) <= (IF id \in Creditors THEN net_balances[id] ELSE 0)

\* C30 witness: two debtors paid their debts, 0.06 together, to two
\* creditors of whom one is left short of the credit
C30_Witness ==
    /\ pc = "returned"
    /\ Cardinality(Debtors) = 2
    /\ Cardinality(Creditors) = 2
    /\ TotalDebt = 6
    /\ TotalCredit = 8
    /\ TotalSettled = 6
    /\ \A id \in Debtors : PaidOut(id) = 0 - net_balances[id]
    /\ \E id \in Creditors : Received(id) < net_balances[id]

\* the expenses that list an eligible participant more than once
WithRepeats ==
    {i \in DOMAIN expenses :
        \E id \in ParticipantIds : Count(EligibleEntries(expenses[i]), id) > 1}

\* C27: repeated beneficiary ids are not taken once: a participant k times in
\* the eligible list of an expense counts k times in the divisor and gets
\* k times amount / (length of the eligible list) of it, so the returned
\* total_share is the rounded sum of these shares.
C27_RepeatsCounted ==
    (pc = "done" /\ WithRepeats # {}) =>
        \A id \in DOMAIN result :
            result[id].total_share = RoundHalfUp(ExactShare(id), ShareUnit)

\* C27 witness: 90.00 for the list [1, 2, 1] with both active: three entries
\* in the divisor, 60.00 for participant 1 and 30.00 for participant 2
C27_Witness ==
    /\ pc = "done"
    /\ Len(expenses) = 1
    /\ expenses[1].amount = 9000
    /\ expenses[1].beneficiaries = <<1, 2, 1>>
    /\ Len(EligibleEntries(expenses[1])) = 3
    /\ result[1].total_share = 6000
    /\ result[2].total_share = 3000

\* ---------------------------------------------------------------------
\* participants.py and expenses.py: the stored documents of one trip.
\* Strings are sequences of characters; a date is written by the digits of
\* its day field, the text before it ("2024-06-") being the same in every
\* date of the model, so that comparing two dates as strings compares these
\* digit sequences.  An optional field is a sequence of length 0 or 1.
\* ---------------------------------------------------------------------

\* the most participants and expenses the trip is filled with
MaxStoredParticipants == 2
MaxStoredExpenses == 1

\* the last day of the month of the model's dates
LastDay == 30

\* the digit characters, in the order of their codes
DigitChars == <<"0", "1", "2", "3", "4", "5", "6", "7", "8", "9">>

DigitValue(c) == CHOOSE d \in 0..9 : DigitChars[d + 1] = c

\* ord(c) of a digit character
Ord(c) == 48 + DigitValue(c)

\* int(text): the number a digit string denotes
RECURSIVE NumberOf(_)
NumberOf(digits) ==
    IF digits = <<>> THEN 0
    ELSE 10 * NumberOf(SubSeq(digits, 1, Len(digits) - 1))
         + DigitValue(digits[Len(digits)])

\* str(n): the decimal digits of a number
RECURSIVE DigitsOf(_)
DigitsOf(n) ==
    IF n < 10 THEN <<DigitChars[n + 1]>>
    ELSE DigitsOf(n \div 10) \o <<DigitChars[(n % 10) + 1]>>

\* f"{n:03d}": the digits, zero-padded to three
RECURSIVE PadZeros(_)
PadZeros(digits) ==
    IF Len(digits) >= 3 THEN digits ELSE PadZeros(<<"0">> \o digits)

\* a < b on Python strings: the first differing character decides, and a
\* proper prefix is the smaller
RECURSIVE StrLess(_, _)
StrLess(a, b) ==
    IF b = <<>> THEN FALSE
    ELSE IF a = <<>> THEN TRUE
    ELSE IF Head(a) # Head(b) THEN Ord(Head(a)) < Ord(Head(b))
    ELSE StrLess(Tail(a), Tail(b))

\* the calendar day a date string denotes
DayOf(date) == NumberOf(date)

\* str.strip()
RECURSIVE LStrip(_)
LStrip(value) ==
    IF value # <<>> /\ Head(value) = " " THEN LStrip(Tail(value)) ELSE value

RECURSIVE RStrip(_)
RStrip(value) ==
    IF value # <<>> /\ value[Len(value)] = " "
    THEN RStrip(SubSeq(value, 1, Len(value) - 1))
    ELSE value

Strip(value) == RStrip(LStrip(value))

\* _validate_date: strptime("%Y-%m-%d") takes a day of one or two digits
_validate_date(date_str) ==
    /\ Len(date_str) \in 1..2
    /\ NumberOf(date_str) \in 1..LastDay

\* _validate_non_empty_string
_validate_non_empty_string(value) == Strip(value) # <<>>

\* the document ids of a collection, as stream() gives them
DocIds(docs) == [i \in 1..Len(docs) |-> docs[i].id]

\* re.compile(r'^P(\d+)$').match(doc.id) and int(match.group(1)); 0 when
\* the id does not match
SuffixNumber(letter, id) ==
    IF Len(id) >= 2 /\ Head(id) = letter THEN NumberOf(Tail(id)) ELSE 0

RECURSIVE MaxSuffix(_, _)
MaxSuffix(letter, ids) ==
    IF ids = <<>> THEN 0
    ELSE IF SuffixNumber(letter, Head(ids)) > MaxSuffix(letter, Tail(ids))
         THEN SuffixNumber(letter, Head(ids))
         ELSE MaxSuffix(letter, Tail(ids))

\* _generate_next_participant_id on the ids read from the collection
_generate_next_participant_id(ids) ==
    <<"P">> \o PadZeros(DigitsOf(MaxSuffix("P", ids) + 1))

\* the id the n-th call on an empty trip gives
StoredId(n) == <<"P">> \o PadZeros(DigitsOf(n))

\* doc_ref.set(data): the document of that id is created or replaced
SetDocument(docs, id, data) ==
    IF \E i \in 1..Len(docs) : docs[i].id = id
    THEN [i \in 1..Len(docs) |-> IF docs[i].id = id THEN [id |-> id, data |-> data]
                                                  ELSE docs[i]]
    ELSE Append(docs, [id |-> id, data |-> data])

\* a removal that deletes the document
DeletedDocument(docs, id, end_date) ==
    SelectSeq(docs, LAMBDA d : d.id # id)

\* doc_ref.update({"end_date": end_date})
UpdatedEndDate(docs, id, end_date) ==
    [i \in 1..Len(docs) |->
        IF docs[i].id = id
        THEN [docs[i] EXCEPT !.data.end_date = <<end_date>>]
        ELSE docs[i]]

\* Participant(...).to_dict() of add_participant
NewParticipant(participant_id, name, start_date, group_id) ==
    [participant_id |-> participant_id,
     name |-> Strip(name),
     start_date |-> start_date,
     end_date |-> <<>>,
     group_id |-> IF group_id = <<>> \/ group_id[1] = <<>>
                  THEN <<>> ELSE <<Strip(group_id[1])>>]

\* the arguments the callers pass
TripIds == {<<"T">>, <<>>}
Names == {<<"A", " ">>, <<" ">>}
DateStrings == {<<"0", "3">>, <<"3">>, <<"1", "0">>, <<"0">>}
GroupIds == {<<>>, << <<"G">> >>}
StoredIds == {StoredId(1), StoredId(2), StoredId(3), <<>>}

\* what the last call was and how it ended
Outcome(op, id, raised) == <<[op |-> op, id |-> id, raised |-> raised]>>

\* add_participant
AddParticipant ==
    /\ pc = "store"
    /\ Len(participants) < MaxStoredParticipants
    /\ \E trip_id \in TripIds, name \in Names, start_date \in DateStrings,
          group_id \in GroupIds :
          IF /\ _validate_non_empty_string(trip_id)
             /\ _validate_non_empty_string(name)
             /\ _validate_date(start_date)
          THEN LET participant_id ==
                       _generate_next_participant_id(DocIds(participants))
               IN /\ participants' =
                         SetDocument(participants, participant_id,
                                     NewParticipant(participant_id, name,
                                                    start_date, group_id))
                  /\ outcome' = Outcome("add_participant", participant_id, FALSE)
          ELSE /\ participants' = participants
               /\ outcome' = Outcome("add_participant", <<>>, TRUE)
    /\ UNCHANGED <<balances, expenses, result, settle_vars, elig_vars,
                   view_vars, calls, settlement_docs, calculated, fetched, pc>>

\* the stored document of an id, if there is one
DocOf(docs, id) == SelectSeq(docs, LAMBDA d : d.id = id)

\* remove_participant
RemoveParticipant ==
    /\ pc = "store"
    /\ \E trip_id \in TripIds, participant_id \in StoredIds,
          end_date \in DateStrings :
          LET doc == DocOf(participants, participant_id)
          IN IF /\ _validate_non_empty_string(trip_id)
                /\ _validate_non_empty_string(participant_id)
                /\ _validate_date(end_date)
                /\ doc # <<>>
                /\ ~(/\ doc[1].data.start_date # <<>>
                      /\ StrLess(end_date, doc[1].data.start_date))
             THEN /\ participants' =
                         UpdatedEndDate(participants, participant_id, end_date)
                  /\ outcome' = Outcome("remove_participant", participant_id, FALSE)
             ELSE /\ participants' = participants
                  /\ outcome' = Outcome("remove_participant", participant_id, TRUE)
    /\ UNCHANGED <<balances, expenses, result, settle_vars, elig_vars,
                   view_vars, calls, settlement_docs, calculated, fetched, pc>>

\* VALID_CATEGORIES
VALID_CATEGORIES == {"food", "hotel", "transport", "fun", "misc"}

\* the amounts of the callers: a float, which may be NaN, or a value that is
\* no number at all
Number(cents) == [type |-> "float", nan |-> FALSE, cents |-> cents]
NaN == [type |-> "float", nan |-> TRUE, cents |-> 0]
NotANumber == [type |-> "str", nan |-> FALSE, cents |-> 0]

\* amount <= 0 and amount > 0 on floats: each is false of NaN
AtMostZero(amount) == ~amount.nan /\ amount.cents <= 0
AboveZero(amount) == ~amount.nan /\ amount.cents > 0

\* the amount test of add_expense, line 242
AmountRejected(amount) == amount.type # "float" \/ AtMostZero(amount)

StoreAmounts == {Number(1000), Number(0), Number(-1000), NaN, NotANumber}
StoreCategories == {"food", "gift"}
StoreBeneficiaries ==
    {<<>>, <<StoredId(1)>>, <<StoredId(1), StoredId(1)>>,
     <<StoredId(1), StoredId(2)>>, <<StoredId(3)>>}
Notes == {<<>>, << <<"n", " ">> >>}

\* _generate_next_expense_id on the ids read from the collection
_generate_next_expense_id(ids) ==
    <<"E">> \o PadZeros(DigitsOf(MaxSuffix("E", ids) + 1))

\* _get_participant_ids
_get_participant_ids(docs) == {docs[i].id : i \in 1..Len(docs)}

\* Expense(...).to_dict() of add_expense
NewExpense(expense_id, payer_id, amount, category, beneficiaries, date, note) ==
    [expense_id |-> expense_id,
     payer_id |-> payer_id,
     amount |-> [amount EXCEPT !.type = "float"],
     category |-> category,
     beneficiaries |-> beneficiaries,
     date |-> date,
     note |-> IF note = <<>> \/ note[1] = <<>> THEN <<>> ELSE <<Strip(note[1])>>]

\* add_expense
AddExpense ==
    /\ pc = "store"
    /\ Len(expenses) < MaxStoredExpenses
    /\ \E trip_id \in TripIds, payer_id \in StoredIds, amount \in StoreAmounts,
          category \in StoreCategories, beneficiaries \in StoreBeneficiaries,
          date \in DateStrings, note \in Notes :
          IF /\ _validate_non_empty_string(trip_id)
             /\ _validate_non_empty_string(payer_id)
             /\ _validate_date(date)
             /\ ~AmountRejected(amount)
             /\ category \in VALID_CATEGORIES
             /\ Len(beneficiaries) # 0
             /\ payer_id \in _get_participant_ids(participants)
             /\ \A i \in 1..Len(beneficiaries) :
                    beneficiaries[i] \in _get_participant_ids(participants)
          THEN LET expense_id == _generate_next_expense_id(DocIds(expenses))
               IN /\ expenses' =
                         SetDocument(expenses, expense_id,
                                     NewExpense(expense_id, payer_id, amount,
                                                category, beneficiaries, date,
                                                note))
                  /\ outcome' = Outcome("add_expense", expense_id, FALSE)
          ELSE /\ expenses' = expenses
               /\ outcome' = Outcome("add_expense", <<>>, TRUE)
    /\ UNCHANGED <<participants, balances, result, settle_vars, elig_vars,
                   view_vars, calls, settlement_docs, calculated, fetched, pc>>

\* an empty trip
StoreInit ==
    /\ CalcIdle
    /\ outcome = <<>>
    /\ calls = <<>>
    /\ settlement_docs = <<>>
    /\ calculated = <<>>
    /\ fetched = <<>>
    /\ pc = "store"

InitStore == StoreInit /\ SettleIdle /\ EligIdle /\ ViewIdle

NextStore == AddParticipant \/ RemoveParticipant \/ AddExpense

SpecStore == InitStore /\ [][NextStore]_vars

\* a participant that left did not leave before the day of joining
EndNotBeforeStart(doc) ==
    doc.data.end_date # <<>> =>
        DayOf(doc.data.start_date) <= DayOf(doc.data.end_date[1])

\* the call that made this step
LastCall == outcome'[1]

\* C21: in every run of add_participant and remove_participant each stored
\* participant with an end_date has start_date <= end_date, and a call that
\* raises ValueError leaves the stored participants as they were; a
\* remove_participant naming no stored participant raises.
C21_EndNotBeforeStart ==
    /\ [](\A i \in 1..Len(participants) : EndNotBeforeStart(participants[i]))
    /\ [][/\ LastCall.raised => participants' = participants
          /\ (/\ LastCall.op = "remove_participant"
              /\ DocOf(participants, LastCall.id) = <<>>) => LastCall.raised]_vars

\* the ids of the stored participants
StoredParticipantIds == {participants[i].id : i \in 1..Len(participants)}

\* the step changed nothing of the participants but the end_date of one
OnlyEndDateChanged(id) ==
    /\ Len(participants') = Len(participants)
    /\ \A i \in 1..Len(participants) :
           IF participants[i].id = id
           THEN /\ participants'[i].data.end_date # <<>>
                /\ participants'[i] =
                       [participants[i] EXCEPT
                           !.data.end_date = participants'[i].data.end_date]
           ELSE participants'[i] = participants[i]

\* C22: removal is soft: no step takes a stored participant id away, and a
\* remove_participant that returns changes the end_date of the named
\* participant and nothing else of the stored participants.
C22_RemovalIsSoft ==
    [][/\ StoredParticipantIds \subseteq StoredParticipantIds'
       /\ (LastCall.op = "remove_participant" /\ ~LastCall.raised) =>
              /\ LastCall.id \in StoredParticipantIds
              /\ OnlyEndDateChanged(LastCall.id)]_vars

\* a participant was removed while another one is stored
C22_Witness ==
    /\ outcome # <<>>
    /\ outcome[1].op = "remove_participant"
    /\ ~outcome[1].raised
    /\ Len(participants) = 2
    /\ DocOf(participants, outcome[1].id)[1].data.end_date # <<>>
    /\ \E i \in 1..Len(participants) : participants[i].data.end_date = <<>>

\* what add_expense is to have checked of an expense it stores
ValidExpense(data) ==
    /\ AboveZero(data.amount)
    /\ data.category \in VALID_CATEGORIES
    /\ data.payer_id \in StoredParticipantIds
    /\ data.beneficiaries # <<>>
    /\ \A i \in 1..Len(data.beneficiaries) :
           data.beneficiaries[i] \in StoredParticipantIds

\* C23: every stored expense has amount > 0, a category of the closed set, a
\* stored participant as payer and a non-empty beneficiaries list of stored
\* participants, and an add_expense that raises ValueError stores nothing.
C23_StoredExpensesValid ==
    /\ [](\A i \in 1..Len(expenses) : ValidExpense(expenses[i].data))
    /\ [][(LastCall.op = "add_expense" /\ LastCall.raised) =>
              expenses' = expenses]_vars

\* ---------------------------------------------------------------------
\* add_participant called by several callers at once on one trip.  A call
\* reads the collection (line 61) and writes its document (line 217) at two
\* moments, and the calls of the other callers may come in between.
\* ---------------------------------------------------------------------

\* the callers, and the calls each of them makes
NumCallers == 2
MaxCalls == 2

Callers == 1..NumCallers

RaceNames == {<<"A">>, <<" ", "B">>, <<" ">>}
RaceDates == {<<"0", "3">>, <<"1", "0">>}

\* a caller outside add_participant, with the ids its calls have returned
Waiting(returned) ==
    [at |-> "idle", name |-> <<>>, start_date |-> <<>>, participant_id |-> <<>>,
     returned |-> returned]

RaceInit ==
    /\ CalcIdle
    /\ calls = [c \in Callers |-> Waiting(<<>>)]
    /\ outcome = <<>>
    /\ settlement_docs = <<>>
    /\ calculated = <<>>
    /\ fetched = <<>>
    /\ pc = "race"

\* add_participant, lines 195-201: the arguments are validated
BeginAddParticipant(c) ==
    /\ pc = "race"
    /\ calls[c].at = "idle"
    /\ Len(calls[c].returned) < MaxCalls
    /\ \E name \in RaceNames, start_date \in RaceDates :
          /\ _validate_non_empty_string(name)
          /\ _validate_date(start_date)
          /\ calls' = [calls EXCEPT ![c] =
                 [@ EXCEPT !.at = "generate", !.name = name,
                           !.start_date = start_date]]
    /\ UNCHANGED <<calc_vars, settle_vars, elig_vars, view_vars, outcome,
                   settlement_docs, calculated, fetched, pc>>

\* add_participant, line 204: the ids are read and the next one computed
GenerateId(c) ==
    /\ pc = "race"
    /\ calls[c].at = "generate"
    /\ calls' = [calls EXCEPT ![c] =
           [@ EXCEPT !.at = "set",
                     !.participant_id =
                         _generate_next_participant_id(DocIds(participants))]]
    /\ UNCHANGED <<calc_vars, settle_vars, elig_vars, view_vars, outcome,
                   settlement_docs, calculated, fetched, pc>>

\* add_participant, lines 207-219: the document is written and the call
\* returns
StoreParticipant(c) ==
    /\ pc = "race"
    /\ calls[c].at = "set"
    /\ participants' =
           SetDocument(participants, calls[c].participant_id,
                       NewParticipant(calls[c].participant_id, calls[c].name,
                                      calls[c].start_date, <<>>))
    /\ calls' = [calls EXCEPT ![c] =
           Waiting(Append(@.returned, @.participant_id))]
    /\ UNCHANGED <<balances, expenses, result, settle_vars, elig_vars,
                   view_vars, outcome, settlement_docs, calculated, fetched, pc>>

InitRace == RaceInit /\ SettleIdle /\ EligIdle /\ ViewIdle

NextRace ==
    \E c \in Callers :
        BeginAddParticipant(c) \/ GenerateId(c) \/ StoreParticipant(c)

SpecRace == InitRace /\ [][NextRace]_vars

\* the ids the completed calls have returned, caller after caller
RECURSIVE ReturnedFrom(_)
ReturnedFrom(c) ==
    IF c > NumCallers THEN <<>> ELSE calls[c].returned \o ReturnedFrom(c + 1)

ReturnedIds == ReturnedFrom(1)

\* C28: under every interleaving of add_participant calls the completed
\* calls have returned distinct ids, and as many participants are stored as
\* calls have completed.
C28_IdsStayUnique ==
    /\ \A i, j \in 1..Len(ReturnedIds) : ReturnedIds[i] = ReturnedIds[j] => i = j
    /\ Len(participants) = Len(ReturnedIds)

\* ---------------------------------------------------------------------
\* main.py and firebase_store.py: calculate_trip_results and
\* get_trip_summary on a stored trip.  Participants and expenses are written
\* as calculate_balances takes them (ids by their numbers, dates by their
\* days, amounts in cents); add_participant and add_expense are called with
\* arguments that pass their validation.
\* ---------------------------------------------------------------------

MaxTripParticipants == 2
MaxTripExpenses == 2

TripAmounts == {9000}

\* settlement.py lines 110-138: the while loop, run to its end
MatchedAmount(ds, cs, d, c) == SignedMin(ds[d].amount, cs[c].amount)

RECURSIVE MatchLoop(_, _, _, _, _)
MatchLoop(ds, cs, d, c, out) ==
    IF ~(d <= Len(ds) /\ c <= Len(cs)) THEN out
    ELSE MatchLoop(
             [ds EXCEPT ![d].amount = SignedSub(@, MatchedAmount(ds, cs, d, c))],
             [cs EXCEPT ![c].amount = SignedSub(@, MatchedAmount(ds, cs, d, c))],
             NextIndex(d, SignedSub(ds[d].amount, MatchedAmount(ds, cs, d, c))),
             NextIndex(c, SignedSub(cs[c].amount, MatchedAmount(ds, cs, d, c))),
             IF Recorded(MatchedAmount(ds, cs, d, c))
             THEN Append(out, [from_participant |-> ds[d].participant_id,
                               to_participant   |-> cs[c].participant_id,
                               amount |-> _round_decimal(
                                              MatchedAmount(ds, cs, d, c))])
             ELSE out)

\* optimize_settlements(balances), on the net balances in dict order
optimize_settlements(nets) ==
    MatchLoop(SortDescending(PartitionDebtors(nets, 1)),
              SortDescending(PartitionCreditors(nets, 1)), 1, 1, <<>>)

\* the net balances of a balances dict, in dict order
NetsOf(bals, n) == [i \in 1..n |-> bals[i].net_balance]

\* f"S{index:03d}"
SettlementId(index) == <<"S">> \o PadZeros(DigitsOf(index))

\* save_settlements: one doc_ref.set for each settlement, from S001 on
RECURSIVE save_settlements(_, _, _)
save_settlements(docs, setts, index) ==
    IF index > Len(setts) THEN docs
    ELSE save_settlements(
             SetDocument(docs, SettlementId(index),
                         [settlement_id |-> SettlementId(index),
                          from_participant |-> setts[index].from_participant,
                          to_participant |-> setts[index].to_participant,
                          amount |-> setts[index].amount]),
             setts, index + 1)

TripInit ==
    /\ CalcIdle
    /\ outcome = <<>>
    /\ calls = <<>>
    /\ settlement_docs = <<>>
    /\ calculated = <<>>
    /\ fetched = <<>>
    /\ pc = "trip"

\* add_participant, the next id given
TripAddParticipant ==
    /\ pc = "trip"
    /\ Len(participants) < MaxTripParticipants
    /\ \E start_date \in Dates :
          participants' =
              Append(participants,
                     [participant_id |-> Len(participants) + 1,
                      start_date |-> start_date, end_date |-> <<>>])
    /\ outcome' = Outcome("add_participant", Len(participants) + 1, FALSE)
    /\ UNCHANGED <<balances, expenses, result, settle_vars, elig_vars,
                   view_vars, calls, settlement_docs, calculated, fetched, pc>>

\* add_expense: payer and beneficiaries are stored participants
TripAddExpense ==
    /\ pc = "trip"
    /\ Len(expenses) < MaxTripExpenses
    /\ \E payer_id \in 1..Len(participants), amount \in TripAmounts,
          beneficiary \in 1..Len(participants), date \in Dates :
          expenses' =
              Append(expenses,
                     [payer_id |-> payer_id, amount |-> amount,
                      beneficiaries |-> <<beneficiary>>, date |-> date])
    /\ outcome' = Outcome("add_expense", Len(expenses) + 1, FALSE)
    /\ UNCHANGED <<participants, balances, result, settle_vars, elig_vars,
                   view_vars, calls, settlement_docs, calculated, fetched, pc>>

\* calculate_trip_results: 404 without participants; otherwise the balances
\* and settlements are computed, saved and returned
CalculateTripResults ==
    /\ pc = "trip"
    /\ IF participants = <<>>
       THEN /\ outcome' = Outcome("calculate_trip_results", 0, TRUE)
            /\ UNCHANGED <<result, settlement_docs, calculated>>
       ELSE /\ result' = calculate_balances(participants, expenses)
            /\ calculated' =
                   <<optimize_settlements(NetsOf(result', Len(participants)))>>
            /\ settlement_docs' =
                   save_settlements(settlement_docs, calculated'[1], 1)
            /\ outcome' = Outcome("calculate_trip_results", 0, FALSE)
    /\ UNCHANGED <<participants, balances, expenses, settle_vars, elig_vars,
                   view_vars, calls, fetched, pc>>

\* get_trip_summary, lines 385-397: every document of the collection
GetTripSummary ==
    /\ pc = "trip"
    /\ fetched' = <<[i \in 1..Len(settlement_docs) |-> settlement_docs[i].data]>>
    /\ outcome' = Outcome("get_trip_summary", 0, FALSE)
    /\ UNCHANGED <<calc_vars, settle_vars, elig_vars, view_vars, calls,
                   settlement_docs, calculated, pc>>

InitTrip == TripInit /\ SettleIdle /\ EligIdle /\ ViewIdle

NextTrip ==
    \/ TripAddParticipant
    \/ TripAddExpense
    \/ CalculateTripResults
    \/ GetTripSummary

SpecTrip == InitTrip /\ [][NextTrip]_vars

\* who pays whom how much, settlement after settlement
PairsAndAmounts(setts) ==
    [i \in 1..Len(setts) |->
        [from_participant |-> setts[i].from_participant,
         to_participant |-> setts[i].to_participant,
         amount |-> setts[i].amount]]

\* C29: the settlements get_trip_summary reads are those the most recent
\* calculate_trip_results returned, the same pairs and amounts and no
\* settlement of an earlier calculation.
C29_SummaryIsLatest ==
    (/\ outcome # <<>>
     /\ outcome[1].op = "get_trip_summary"
     /\ calculated # <<>>) =>
        PairsAndAmounts(fetched[1]) = PairsAndAmounts(calculated[1])


====
